---- MODULE Spec2Model ----
(***************************************************************************)
(* Model of the ORCA input generator orca_mkinput.py.                      *)
(*                                                                         *)
(* Text is modelled by strings, character by character: the document that  *)
(* a writer puts into its output file is the very string the Python code   *)
(* composes, and the properties read it back line by line.                 *)
(*                                                                         *)
(* Python's None is the empty tuple NONE, a present value v is <<v>>.      *)
(***************************************************************************)
EXTENDS Integers, Sequences, FiniteSets, TLC

VARIABLES
    JOB_MAP,    \* the module-level table of orca_mkinput.py
    call,       \* the function under execution and its arguments
    pc,         \* "ready" before the call runs, "writing" inside a with block,
                \* "loop" in main between two files, "returned" or "raised"
    ret,        \* the value the call returned (NONE for a writer)
    exc,        \* the exception that left the call, NONE or <<message>>
    fs,         \* the file system: the paths of the files -> their text
    stdout,     \* the messages printed to stdout so far
    stderr,     \* the messages printed to stderr so far
    todo,       \* the calls the caller makes after this one returns
    handle,     \* the file object of the running with block, or NONE
    frame,      \* the local variables of main across its folder loop
    env         \* what the scripts of src/scripts and orca_submit.py see of the
                \* machine: the Slurm queue, the terminal, the keys typed, the
                \* commands run; NONE for orca_mkinput.py, which sees only fs

vars == <<JOB_MAP, call, pc, ret, exc, fs, stdout, stderr, todo, handle, frame, env>>

----------------------------------------------------------------------------
(* Python values and string methods                                        *)

NONE == <<>>

Some(v) == <<v>>

\* Python truthiness of an optional string: None and "" are falsy.
Truthy(o) == o /= NONE /\ o[1] /= ""

\* o or d, for an optional string o and a string d
OrElse(o, d) == IF Truthy(o) THEN o[1] ELSE d

Char(s, i) == SubSeq(s, i, i)

UpperCase == "ABCDEFGHIJKLMNOPQRSTUVWXYZ"

LowerCase == "abcdefghijklmnopqrstuvwxyz"

LowerChar(c) ==
    IF \E i \in 1..Len(UpperCase) : Char(UpperCase, i) = c
    THEN Char(LowerCase, CHOOSE i \in 1..Len(UpperCase) : Char(UpperCase, i) = c)
    ELSE c

RECURSIVE Lower(_)
\* str.lower()
Lower(s) == IF s = "" THEN "" ELSE LowerChar(Head(s)) \o Lower(Tail(s))

\* str.startswith(p)
StartsWith(s, p) == Len(p) <= Len(s) /\ SubSeq(s, 1, Len(p)) = p

IsSpace(c) == c \in {" ", "\t", "\n", "\r"}

RECURSIVE ReplaceChar(_, _, _)
\* str.replace(a, b) for one-character a
ReplaceChar(s, a, b) ==
    IF s = "" THEN ""
    ELSE (IF Head(s) = a THEN b ELSE Head(s)) \o ReplaceChar(Tail(s), a, b)

RECURSIVE LStrip(_)
LStrip(s) == IF s /= "" /\ IsSpace(Head(s)) THEN LStrip(Tail(s)) ELSE s

RECURSIVE RStrip(_)
\* str.rstrip(): every trailing whitespace character goes
RStrip(s) ==
    IF s /= "" /\ IsSpace(Char(s, Len(s)))
    THEN RStrip(SubSeq(s, 1, Len(s) - 1))
    ELSE s

\* str.strip()
Strip(s) == LStrip(RStrip(s))

RECURSIVE SplitWsFrom(_, _)
\* the words of s, cur being the word read so far
SplitWsFrom(s, cur) ==
    IF s = "" THEN (IF cur = "" THEN <<>> ELSE <<cur>>)
    ELSE IF IsSpace(Head(s))
         THEN (IF cur = "" THEN <<>> ELSE <<cur>>) \o SplitWsFrom(Tail(s), "")
         ELSE SplitWsFrom(Tail(s), cur \o Head(s))

\* str.split() with no argument: runs of whitespace separate, no empty word
SplitWs(s) == SplitWsFrom(s, "")

RECURSIVE Join(_, _)
\* sep.join(seq)
Join(sep, seq) ==
    IF seq = <<>> THEN ""
    ELSE IF Len(seq) = 1 THEN seq[1]
    ELSE seq[1] \o sep \o Join(sep, Tail(seq))

Digits == "0123456789"

RECURSIVE StrNat(_)
StrNat(n) ==
    IF n < Len(Digits) THEN Char(Digits, n + 1)
    ELSE StrNat(n \div Len(Digits)) \o Char(Digits, (n % Len(Digits)) + 1)

\* f"{n}" for an int n
Str(n) == IF n < 0 THEN "-" \o StrNat(0 - n) ELSE StrNat(n)

RECURSIVE DropEmpty(_)
\* [t for t in seq if t]
DropEmpty(seq) ==
    IF seq = <<>> THEN <<>>
    ELSE (IF seq[1] /= "" THEN <<seq[1]>> ELSE <<>>) \o DropEmpty(Tail(seq))

RECURSIVE Flatten(_)
Flatten(seqs) == IF seqs = <<>> THEN <<>> ELSE seqs[1] \o Flatten(Tail(seqs))

UpperChar(c) ==
    IF \E i \in 1..Len(LowerCase) : Char(LowerCase, i) = c
    THEN Char(UpperCase, CHOOSE i \in 1..Len(LowerCase) : Char(LowerCase, i) = c)
    ELSE c

RECURSIVE Upper(_)
\* str.upper()
Upper(s) == IF s = "" THEN "" ELSE UpperChar(Head(s)) \o Upper(Tail(s))

\* the characters of the file names, by increasing code point
CodePointOrder == "-./0123456789ABCDEFGHIJKLMNOPQRSTUVWXYZ_abcdefghijklmnopqrstuvwxyz"

CodeRank(c) == CHOOSE i \in 1..Len(CodePointOrder) : Char(CodePointOrder, i) = c

RECURSIVE StrLess(_, _)
\* a < b for two str
StrLess(a, b) ==
    IF b = "" THEN FALSE
    ELSE IF a = "" THEN TRUE
    ELSE IF Head(a) = Head(b) THEN StrLess(Tail(a), Tail(b))
    ELSE CodeRank(Head(a)) < CodeRank(Head(b))

\* the fields of s between the occurrences of the character c
SplitOn(s, c) ==
    LET cuts == SelectSeq([i \in 1..Len(s) |-> i], LAMBDA i : Char(s, i) = c)
        n    == Len(cuts)
    IN  [k \in 1..(n + 1) |->
            SubSeq(s, (IF k = 1 THEN 0 ELSE cuts[k - 1]) + 1,
                      (IF k = n + 1 THEN Len(s) + 1 ELSE cuts[k]) - 1)]

----------------------------------------------------------------------------
(* Utilities of orca_mkinput.py                                            *)

\* one item of --extra: commas become spaces, then the words
ExtraItemTokens(item) ==
    LET words == SplitWs(ReplaceChar(item, ",", " "))
    IN  DropEmpty([i \in 1..Len(words) |-> Strip(words[i])])

\* _parse_extras(extra_list): extra_list is NONE or <<list of strings>>
_parse_extras(extra_list) ==
    IF extra_list = NONE \/ extra_list[1] = <<>> THEN <<>>
    ELSE Flatten([i \in 1..Len(extra_list[1]) |-> ExtraItemTokens(extra_list[1][i])])

_join_bang_tokens(tokens) ==
    "! " \o Join(" ", DropEmpty(tokens))

JobKinds == {"sp", "opt", "freq", "optfreq", "optts", "tddft", "neb", "nebci", "nebts"}

JOB_MAP_Swapped ==
    [j \in JobKinds |->
        CASE j = "sp"      -> <<>>
          [] j = "opt"     -> <<"Opt">>
          [] j = "freq"    -> <<"Freq">>
          [] j = "optfreq" -> <<"Freq", "Opt">>
          [] j = "optts"   -> <<"OptTS">>
          [] j = "tddft"   -> <<>>
          [] j = "neb"     -> <<"NEB">>
          [] j = "nebci"   -> <<"NEB-TS">>
          [] j = "nebts"   -> <<"NEB-CI">>]

\* the dict literal bound to JOB_MAP when the module is loaded
JOB_MAP_Literal ==
    [j \in JobKinds |->
        CASE j = "sp"      -> <<>>
          [] j = "opt"     -> <<"Opt">>
          [] j = "freq"    -> <<"Freq">>
          [] j = "optfreq" -> <<"Opt", "Freq">>
          [] j = "optts"   -> <<"OptTS">>
          [] j = "tddft"   -> <<>>
          [] j = "neb"     -> <<"NEB">>
          [] j = "nebci"   -> <<"NEB-CI">>
          [] j = "nebts"   -> <<"NEB-TS">>]

\* JOB_MAP.get(job, [])
JobMapGet(jm, job) == IF job \in DOMAIN jm THEN jm[job] ELSE <<>>

BasisSentinels == {"None", "-", "NA"}

\* a slip: the prefixes compared without lower()
HasScfToken_CaseSensitive(extra_tokens) ==
    \E i \in 1..Len(extra_tokens) :
        \/ StartsWith(extra_tokens[i], "TightSCF")
        \/ StartsWith(extra_tokens[i], "LooseSCF")

\* any(t.lower().startswith(("tightscf", "loosescf")) for t in extra_tokens)
HasScfToken(extra_tokens) ==
    \E i \in 1..Len(extra_tokens) :
        \/ StartsWith(Lower(extra_tokens[i]), "tightscf")
        \/ StartsWith(Lower(extra_tokens[i]), "loosescf")

\* a slip: the user's extra tokens put before the solvent tokens
BangTokens_ExtrasFirst(jm, method, basis, job, grid_token, cpcm, smd, extra_tokens, force_tokens) ==
       (IF Truthy(method) THEN <<method[1]>> ELSE <<>>)
    \o (IF Truthy(basis) /\ basis[1] \notin BasisSentinels THEN <<basis[1]>> ELSE <<>>)
    \o (IF Truthy(grid_token) THEN <<grid_token[1]>> ELSE <<>>)
    \o (IF ~HasScfToken(extra_tokens) THEN <<"TightSCF">> ELSE <<>>)
    \o JobMapGet(jm, job)
    \o extra_tokens
    \o (IF Truthy(cpcm) THEN <<"CPCM(" \o cpcm[1] \o ")">> ELSE <<>>)
    \o (IF Truthy(smd) THEN <<"SMD(" \o smd[1] \o ")">> ELSE <<>>)
    \o (IF force_tokens /= NONE /\ force_tokens[1] /= <<>> THEN force_tokens[1] ELSE <<>>)

\* a slip: the job keywords put after the solvent tokens
BangTokens_JobLast(jm, method, basis, job, grid_token, cpcm, smd, extra_tokens, force_tokens) ==
       (IF Truthy(method) THEN <<method[1]>> ELSE <<>>)
    \o (IF Truthy(basis) /\ basis[1] \notin BasisSentinels THEN <<basis[1]>> ELSE <<>>)
    \o (IF Truthy(grid_token) THEN <<grid_token[1]>> ELSE <<>>)
    \o (IF ~HasScfToken(extra_tokens) THEN <<"TightSCF">> ELSE <<>>)
    \o (IF Truthy(cpcm) THEN <<"CPCM(" \o cpcm[1] \o ")">> ELSE <<>>)
    \o (IF Truthy(smd) THEN <<"SMD(" \o smd[1] \o ")">> ELSE <<>>)
    \o JobMapGet(jm, job)
    \o extra_tokens
    \o (IF force_tokens /= NONE /\ force_tokens[1] /= <<>> THEN force_tokens[1] ELSE <<>>)

\* the list toks of _make_bang_line before it is joined; jm is the value of
\* JOB_MAP, force_tokens is NONE or <<list>>
BangTokens(jm, method, basis, job, grid_token, cpcm, smd, extra_tokens, force_tokens) ==
       (IF Truthy(method) THEN <<method[1]>> ELSE <<>>)
    \o (IF Truthy(basis) /\ basis[1] \notin BasisSentinels THEN <<basis[1]>> ELSE <<>>)
    \o (IF Truthy(grid_token) THEN <<grid_token[1]>> ELSE <<>>)
    \o (IF ~HasScfToken(extra_tokens) THEN <<"TightSCF">> ELSE <<>>)
    \o JobMapGet(jm, job)
    \o (IF Truthy(cpcm) THEN <<"CPCM(" \o cpcm[1] \o ")">> ELSE <<>>)
    \o (IF Truthy(smd) THEN <<"SMD(" \o smd[1] \o ")">> ELSE <<>>)
    \o extra_tokens
    \o (IF force_tokens /= NONE /\ force_tokens[1] /= <<>> THEN force_tokens[1] ELSE <<>>)

_make_bang_line(jm, method, basis, job, grid_token, cpcm, smd, extra_tokens, force_tokens) ==
    _join_bang_tokens(
        BangTokens(jm, method, basis, job, grid_token, cpcm, smd, extra_tokens, force_tokens))

_pal_block(pal) == "%pal\n  nprocs " \o Str(pal) \o "\nend"

_maxcore_block(mb) == "%MaxCore " \o Str(mb)

\* the default of _scf_block's parameter maxiter
ScfMaxIterDefault == 300

_scf_block(maxiter) == "%scf\n  MaxIter " \o Str(maxiter) \o "\nend"

_tddft_block(nroots) == "%tddft\n  nroots " \o Str(nroots) \o "\nend"

\* a slip: the token compared without lower()
HasMoread_CaseSensitive(extra_tokens) ==
    \E i \in 1..Len(extra_tokens) : extra_tokens[i] = "moread"

\* any(t.lower() == "moread" for t in extra_tokens)
HasMoread(extra_tokens) ==
    \E i \in 1..Len(extra_tokens) : Lower(extra_tokens[i]) = "moread"

\* a list of text blocks given as NONE or <<list>> is truthy when it is a
\* non-empty list
TruthyList(o) == o /= NONE /\ o[1] /= <<>>

----------------------------------------------------------------------------
(* Writers                                                                 *)

\* extra_tokens of write_single_step once the implicit moread is appended
SingleExtraTokens(extra, moinp) ==
    LET extra_tokens == _parse_extras(extra)
    IN  IF Truthy(moinp) /\ ~HasMoread(extra_tokens)
        THEN Append(extra_tokens, "moread")
        ELSE extra_tokens

\* a slip: the %moinp section appended after the geometry-binding line
SingleContent_MoinpLast(jm, a) ==
    LET bang   == _make_bang_line(jm, a.method, a.basis, a.job, a.grid, a.cpcm, a.smd,
                                  SingleExtraTokens(a.extra, a.moinp), NONE)
        header == IF a.pal_style = "bang"
                  THEN bang \o "\n\n! PAL" \o Str(a.pal)
                  ELSE bang
        blocks ==    (IF a.pal_style = "bang" THEN <<>> ELSE <<_pal_block(a.pal)>>)
                  \o <<_maxcore_block(a.maxcore_mb)>>
                  \o (IF a.job = "tddft" THEN <<_tddft_block(a.nstates)>> ELSE <<>>)
                  \o <<_scf_block(ScfMaxIterDefault)>>
    IN     <<header>>
        \o (IF blocks /= <<>> THEN <<Join("\n", blocks)>> ELSE <<>>)
        \o (IF TruthyList(a.extra_blocks) THEN <<Join("\n", a.extra_blocks[1])>> ELSE <<>>)
        \o <<"\n* xyzfile " \o Str(a.charge) \o " " \o Str(a.mult) \o " " \o a.xyzfile \o "\n\n">>
        \o (IF Truthy(a.moinp) THEN <<"%moinp \"" \o a.moinp[1] \o "\"">> ELSE <<>>)

\* a slip: the %tddft section appended after the %scf section
SingleContent_TddftLast(jm, a) ==
    LET bang   == _make_bang_line(jm, a.method, a.basis, a.job, a.grid, a.cpcm, a.smd,
                                  SingleExtraTokens(a.extra, a.moinp), NONE)
        header == IF a.pal_style = "bang"
                  THEN bang \o "\n\n! PAL" \o Str(a.pal)
                  ELSE bang
        blocks ==    (IF a.pal_style = "bang" THEN <<>> ELSE <<_pal_block(a.pal)>>)
                  \o <<_maxcore_block(a.maxcore_mb)>>
                  \o <<_scf_block(ScfMaxIterDefault)>>
                  \o (IF a.job = "tddft" THEN <<_tddft_block(a.nstates)>> ELSE <<>>)
    IN     <<header>>
        \o (IF blocks /= <<>> THEN <<Join("\n", blocks)>> ELSE <<>>)
        \o (IF Truthy(a.moinp) THEN <<"%moinp \"" \o a.moinp[1] \o "\"">> ELSE <<>>)
        \o (IF TruthyList(a.extra_blocks) THEN <<Join("\n", a.extra_blocks[1])>> ELSE <<>>)
        \o <<"\n* xyzfile " \o Str(a.charge) \o " " \o Str(a.mult) \o " " \o a.xyzfile \o "\n\n">>

\* the list content of write_single_step; a holds the arguments of the call
SingleContent(jm, a) ==
    LET bang   == _make_bang_line(jm, a.method, a.basis, a.job, a.grid, a.cpcm, a.smd,
                                  SingleExtraTokens(a.extra, a.moinp), NONE)
        header == IF a.pal_style = "bang"
                  THEN bang \o "\n\n! PAL" \o Str(a.pal)
                  ELSE bang
        blocks ==    (IF a.pal_style = "bang" THEN <<>> ELSE <<_pal_block(a.pal)>>)
                  \o <<_maxcore_block(a.maxcore_mb)>>
                  \o (IF a.job = "tddft" THEN <<_tddft_block(a.nstates)>> ELSE <<>>)
                  \o <<_scf_block(ScfMaxIterDefault)>>
    IN     <<header>>
        \o (IF blocks /= <<>> THEN <<Join("\n", blocks)>> ELSE <<>>)
        \o (IF Truthy(a.moinp) THEN <<"%moinp \"" \o a.moinp[1] \o "\"">> ELSE <<>>)
        \o (IF TruthyList(a.extra_blocks) THEN <<Join("\n", a.extra_blocks[1])>> ELSE <<>>)
        \o <<"\n* xyzfile " \o Str(a.charge) \o " " \o Str(a.mult) \o " " \o a.xyzfile \o "\n\n">>

\* the text write_single_step writes to outpath
SingleText(jm, a) == Join("\n\n", SingleContent(jm, a))

\* the directive line of one step of write_compound
StepBang(jm, st) ==
    LET extra_tokens == st.extra_tokens
    IN  IF Truthy(st.moinp) /\ ~HasMoread(extra_tokens)
        THEN _make_bang_line(jm, st.method, st.basis, st.job, st.grid, st.cpcm, st.smd,
                             Append(extra_tokens, "moread"), NONE)
        ELSE _make_bang_line(jm, st.method, st.basis, st.job, st.grid, st.cpcm, st.smd,
                             st.extra_tokens, NONE)

\* a slip: the moread token appended to the list of the step itself
StepAfter_NoCopy(st) ==
    [st EXCEPT !.extra_tokens = IF Truthy(st.moinp) /\ ~HasMoread(@)
                                THEN Append(@, "moread") ELSE @]

\* the dict st once the loop body of write_compound has run: the token is
\* appended to extra_tokens, a copy, and st["extra_tokens"] keeps its items
StepAfter(st) == [st EXCEPT !.extra_tokens = @]

\* the list steps once write_compound has run
StepsAfter(steps) == [i \in 1..Len(steps) |-> StepAfter(steps[i])]

\* step_extra_blocks is NONE or <<dict>>, the dict a function from step
\* numbers to lists of block texts
HasStepBlocks(step_extra_blocks, i) ==
    /\ step_extra_blocks /= NONE
    /\ DOMAIN step_extra_blocks[1] /= {}
    /\ i \in DOMAIN step_extra_blocks[1]

\* a slip: every step binds the geometry
StepItems_GeomEveryStep(jm, i, st, xyzfile, charge, mult, step_extra_blocks) ==
       <<"New_step">>
    \o <<StepBang(jm, st)>>
    \o (IF Truthy(st.moinp) THEN <<"%moinp \"" \o st.moinp[1] \o "\"">> ELSE <<>>)
    \o (IF st.job = "tddft" THEN <<_tddft_block(st.nstates)>> ELSE <<>>)
    \o <<_scf_block(ScfMaxIterDefault)>>
    \o (IF HasStepBlocks(step_extra_blocks, i)
        THEN <<RStrip(Join("\n", step_extra_blocks[1][i]))>>
        ELSE <<>>)
    \o <<"* xyzfile " \o Str(charge) \o " " \o Str(mult) \o " " \o xyzfile \o "\n">>
    \o <<"Step_end\n">>

\* a slip: the %tddft section appended after the %scf section
StepItems_TddftAfterScf(jm, i, st, xyzfile, charge, mult, step_extra_blocks) ==
       <<"New_step">>
    \o <<StepBang(jm, st)>>
    \o (IF Truthy(st.moinp) THEN <<"%moinp \"" \o st.moinp[1] \o "\"">> ELSE <<>>)
    \o <<_scf_block(ScfMaxIterDefault)>>
    \o (IF st.job = "tddft" THEN <<_tddft_block(st.nstates)>> ELSE <<>>)
    \o (IF HasStepBlocks(step_extra_blocks, i)
        THEN <<RStrip(Join("\n", step_extra_blocks[1][i]))>>
        ELSE <<>>)
    \o (IF i = 1
        THEN <<"* xyzfile " \o Str(charge) \o " " \o Str(mult) \o " " \o xyzfile \o "\n">>
        ELSE <<>>)
    \o <<"Step_end\n">>

\* what the loop body of write_compound appends to comp for step i
StepItems(jm, i, st, xyzfile, charge, mult, step_extra_blocks) ==
       <<"New_step">>
    \o <<StepBang(jm, st)>>
    \o (IF Truthy(st.moinp) THEN <<"%moinp \"" \o st.moinp[1] \o "\"">> ELSE <<>>)
    \o (IF st.job = "tddft" THEN <<_tddft_block(st.nstates)>> ELSE <<>>)
    \o <<_scf_block(ScfMaxIterDefault)>>
    \o (IF HasStepBlocks(step_extra_blocks, i)
        THEN <<RStrip(Join("\n", step_extra_blocks[1][i]))>>
        ELSE <<>>)
    \o (IF i = 1
        THEN <<"* xyzfile " \o Str(charge) \o " " \o Str(mult) \o " " \o xyzfile \o "\n">>
        ELSE <<>>)
    \o <<"Step_end\n">>

\* a slip: the memory ceiling put before the parallelism rendering
CompoundHeader_MaxCoreFirst(pal, maxcore_mb, pal_style) ==
    Strip(Join("\n",
           <<"%MaxCore " \o Str(maxcore_mb)>>
        \o (IF pal_style = "bang" THEN <<"! PAL" \o Str(pal)>>
            ELSE IF pal_style = "block" THEN <<"%pal\n  nprocs " \o Str(pal) \o "\nend">>
            ELSE <<>>)))

\* a slip: block style emits the inline directive as well
CompoundHeader_BothRenderings(pal, maxcore_mb, pal_style) ==
    Strip(Join("\n",
           (IF pal_style = "bang" THEN <<"! PAL" \o Str(pal)>>
            ELSE IF pal_style = "block"
                 THEN <<"! PAL" \o Str(pal), "%pal\n  nprocs " \o Str(pal) \o "\nend">>
            ELSE <<>>)
        \o <<"%MaxCore " \o Str(maxcore_mb)>>))

\* the string header of write_compound
CompoundHeader(pal, maxcore_mb, pal_style) ==
    Strip(Join("\n",
           (IF pal_style = "bang" THEN <<"! PAL" \o Str(pal)>>
            ELSE IF pal_style = "block" THEN <<"%pal\n  nprocs " \o Str(pal) \o "\nend">>
            ELSE <<>>)
        \o <<"%MaxCore " \o Str(maxcore_mb)>>))

\* the string body of write_compound; a holds the arguments of the call
CompoundBody(jm, a) ==
    Join("\n",
           <<"%compound">>
        \o Flatten([i \in 1..Len(a.steps) |->
              StepItems(jm, i, a.steps[i], a.xyzfile, a.charge, a.mult, a.step_extra_blocks)])
        \o <<"EndRun">>)

\* a slip: the document names the file it is written to
SingleWrites_NamesOutput(jm, a) == <<SingleText(jm, a) \o "# " \o a.outpath \o "\n">>

\* the strings write_single_step hands to f.write, in order
SingleWrites(jm, a) == <<SingleText(jm, a)>>

\* the strings write_compound hands to f.write, in order
CompoundWrites(jm, a) ==
    LET header == CompoundHeader(a.pal, a.maxcore_mb, a.pal_style)
    IN     (IF header /= "" THEN <<header \o "\n\n">> ELSE <<>>)
        \o (IF TruthyList(a.global_extra_blocks)
            THEN <<RStrip(Join("\n", a.global_extra_blocks[1])) \o "\n\n">>
            ELSE <<>>)
        \o <<CompoundBody(jm, a) \o "\n">>

\* the text the f.write calls of write_compound put into outpath
CompoundText(jm, a) == Join("", CompoundWrites(jm, a))

\* f"{x}" for a float x given in thousandths, x >= 0
StrMilli(x) ==
    LET whole == x \div 1000
        frac  == x % 1000
    IN  Str(whole) \o "." \o
        (IF frac = 0 THEN "0"
         ELSE IF frac % 100 = 0 THEN Str(frac \div 100)
         ELSE IF frac % 10 = 0 THEN (IF frac < 100 THEN "0" ELSE "") \o Str(frac \div 10)
         ELSE (IF frac < 10 THEN "00" ELSE IF frac < 100 THEN "0" ELSE "") \o Str(frac))

\* a slip: the climbing-image and transition-state keys exchanged
NebJobKey_Swapped(mode) ==
    CASE mode = "neb"    -> "neb"
      [] mode = "neb-ci" -> "nebts"
      [] mode = "neb-ts" -> "nebci"

\* the dict literal of write_neb_input that maps the mode to the job key
NebJobKey(mode) ==
    CASE mode = "neb"    -> "neb"
      [] mode = "neb-ci" -> "nebci"
      [] mode = "neb-ts" -> "nebts"

\* the list neb_lines of write_neb_input
NebLines(a) ==
       <<"%NEB", "  NEB_END_XYZFILE \"" \o a.product_xyz \o "\"">>
    \o (IF Truthy(a.ts_xyz) THEN <<"  NEB_TS_XYZFILE \"" \o a.ts_xyz[1] \o "\"">> ELSE <<>>)
    \o <<"  SpringConst " \o StrMilli(a.springconst)>>
    \o <<"  MAXITER " \o Str(a.maxiter)>>
    \o <<"  NImages " \o Str(a.nimages)>>
    \o <<"end">>

\* the list chunks of write_neb_input; a holds the arguments of the call
NebChunks(jm, a) ==
    LET bang   == _make_bang_line(jm, a.method, a.basis, NebJobKey(a.mode), a.grid,
                                  a.cpcm, a.smd, _parse_extras(a.extra), NONE)
        header == IF a.pal_style = "bang"
                  THEN bang \o "\n\n! PAL" \o Str(a.pal)
                  ELSE bang
        blocks ==    (IF a.pal_style = "bang" THEN <<>> ELSE <<_pal_block(a.pal)>>)
                  \o <<_maxcore_block(a.maxcore_mb)>>
                  \o <<_scf_block(ScfMaxIterDefault)>>
    IN  <<header, Join("\n", blocks), Join("\n", NebLines(a)),
          "* xyzfile " \o Str(a.charge) \o " " \o Str(a.mult) \o " " \o a.reactant_xyz \o "\n">>

\* the text write_neb_input writes
NebText(jm, a) == Join("\n\n", DropEmpty(NebChunks(jm, a))) \o "\n"

\* the strings write_neb_input hands to f.write, in order
NebWrites(jm, a) == <<NebText(jm, a)>>

----------------------------------------------------------------------------
(* Files and paths                                                         *)

\* Path.cwd(): the directory the relative paths start from
Cwd == "/home/user/run"

\* fs is a function from the paths of the existing files to their text; a
\* file below the working directory is kept under its relative path
FsKey(path) ==
    IF StartsWith(path, Cwd \o "/") THEN SubSeq(path, Len(Cwd) + 2, Len(path)) ELSE path

\* Path(path).exists()
Exists(files, path) == FsKey(path) \in DOMAIN files

\* the files once path holds text
WriteFile(files, path, text) ==
    [q \in DOMAIN files \cup {FsKey(path)} |-> IF q = FsKey(path) THEN text ELSE files[q]]

\* the text of an existing file
FileText(files, path) == files[FsKey(path)]

\* the greatest i with s[i] = c, or 0
LastIndexOf(s, c) ==
    IF \E i \in 1..Len(s) : Char(s, i) = c
    THEN CHOOSE i \in 1..Len(s) :
            Char(s, i) = c /\ \A j \in (i + 1)..Len(s) : Char(s, j) /= c
    ELSE 0

\* Path(p).name
PathName(p) == SubSeq(p, LastIndexOf(p, "/") + 1, Len(p))

\* Path(p).stem: the name without its last suffix
PathStem(p) ==
    LET name == PathName(p)
        dot  == LastIndexOf(name, ".")
    IN  IF dot > 1 /\ dot < Len(name) THEN SubSeq(name, 1, dot - 1) ELSE name

\* str(Path(p).parent) for a relative path
PathParent(p) ==
    LET slash == LastIndexOf(p, "/")
    IN  IF slash = 0 THEN "." ELSE SubSeq(p, 1, slash - 1)

\* str(Path(dir) / name)
PathJoin(dir, name) == IF dir = "." THEN name ELSE dir \o "/" \o name

\* outpath of write_neb_input
NebOutpath(a) == PathJoin(OrElse(a.outdir, Cwd), a.name \o ".inp")

\* Path(p).parts for a relative path
PathParts(p) == SplitOn(p, "/")

RECURSIVE PartsLess(_, _)
\* the order of two Path objects: that of their lists of parts
PartsLess(a, b) ==
    IF b = <<>> THEN FALSE
    ELSE IF a = <<>> THEN TRUE
    ELSE IF a[1] = b[1] THEN PartsLess(Tail(a), Tail(b))
    ELSE StrLess(a[1], b[1])

RECURSIVE SortPaths(_)
\* sorted(paths)
SortPaths(paths) ==
    IF paths = {} THEN <<>>
    ELSE LET least == CHOOSE x \in paths :
                         \A y \in paths \ {x} : PartsLess(PathParts(x), PathParts(y))
         IN  <<least>> \o SortPaths(paths \ {least})

RECURSIVE FnMatch(_, _)
\* one file name against one component of a pattern whose only wildcard is *
FnMatch(name, pat) ==
    IF pat = "" THEN name = ""
    ELSE IF Head(pat) = "*"
         THEN FnMatch(name, Tail(pat)) \/ (name /= "" /\ FnMatch(Tail(name), pat))
         ELSE name /= "" /\ Head(name) = Head(pat) /\ FnMatch(Tail(name), Tail(pat))

\* the directories that hold the file path, the nearest last
Ancestors(path) ==
    {SubSeq(path, 1, i - 1) : i \in {j \in 2..Len(path) : Char(path, j) = "/"}}

\* the files and the directories of the file system
Entries(files) == DOMAIN files \cup UNION {Ancestors(q) : q \in DOMAIN files}

\* Path(folder).glob(pattern), as a set: the entries below folder whose path
\* from folder matches the pattern component by component
Glob(files, folder, pattern) ==
    {q \in Entries(files) :
        /\ StartsWith(q, folder \o "/")
        /\ LET rel == PathParts(SubSeq(q, Len(folder) + 2, Len(q)))
               pat == PathParts(pattern)
           IN  /\ Len(rel) = Len(pat)
               /\ \A i \in 1..Len(pat) : FnMatch(rel[i], pat[i])}

\* _read_text_file(path) for an existing file
_read_text_file(files, path) == RStrip(FileText(files, path)) \o "\n"

----------------------------------------------------------------------------
(* Command line                                                            *)

\* the step indices of the numbered options: range(1, 5)
StepIndices == 1..4

\* the fields whose presence makes a compound step
StepFields == {"job", "method", "basis", "grid", "cpcm", "smd", "extra", "moinp"}

\* args.step[k][f] is getattr(args, f"{f}{k}")
NumberedPresent(args, k) == \E f \in StepFields : args.step[k][f] /= NONE

_any_numbered_options_present(args) == \E k \in StepIndices : NumberedPresent(args, k)

\* the dict st that _collect_compound_steps builds for index k
CompoundStep(args, k) ==
    LET o == args.step[k]
    IN  [job          |-> OrElse(o.job, "sp"),
         method       |-> Some(OrElse(o.method, OrElse(args.method, "wB97X-D4"))),
         basis        |-> Some(OrElse(o.basis, OrElse(args.basis, "def2-SVPD"))),
         grid         |-> IF Truthy(o.grid) THEN o.grid ELSE args.grid,
         cpcm         |-> o.cpcm,
         smd          |-> o.smd,
         extra_tokens |-> _parse_extras(o.extra),
         moinp        |-> o.moinp,
         nstates      |-> o.nstates]

RECURSIVE CompoundStepsFrom(_, _)
CompoundStepsFrom(args, k) ==
    IF k \notin StepIndices THEN <<>>
    ELSE (IF NumberedPresent(args, k) THEN <<CompoundStep(args, k)>> ELSE <<>>)
         \o CompoundStepsFrom(args, k + 1)

_collect_compound_steps(args) == CompoundStepsFrom(args, 1)

\* [_read_text_file(f) for f in lst]
ReadAll(files, lst) == [i \in 1..Len(lst) |-> _read_text_file(files, lst[i])]

\* _collect_global_extra_blocks(args), every file existing
_collect_global_extra_blocks(files, args) ==
    IF TruthyList(args.extra_block) THEN ReadAll(files, args.extra_block[1]) ELSE <<>>

\* the keys of the dict by_step
StepBlockKeys(args) == {k \in StepIndices : TruthyList(args.step[k].extra_block)}

\* _collect_step_extra_blocks(args), every file existing
_collect_step_extra_blocks(files, args) ==
    [k \in StepBlockKeys(args) |-> ReadAll(files, args.step[k].extra_block[1])]

\* the literal-block files main reads, in the order it reads them
BlockFilesRead(args, compound) ==
       (IF TruthyList(args.extra_block) THEN args.extra_block[1] ELSE <<>>)
    \o (IF compound
        THEN Flatten([k \in StepIndices |->
                IF TruthyList(args.step[k].extra_block)
                THEN args.step[k].extra_block[1] ELSE <<>>])
        ELSE <<>>)

\* the first of them that does not exist, as NONE or <<path>>
FirstMissing(files, paths) ==
    IF \E i \in 1..Len(paths) : ~Exists(files, paths[i])
    THEN Some(paths[CHOOSE i \in 1..Len(paths) :
                 ~Exists(files, paths[i]) /\ \A j \in 1..(i - 1) : Exists(files, paths[j])])
    ELSE NONE

\* _resolve_name_outdir(xyz, args) joined to the output path of main
MainOutpath(args) ==
    LET stem   == OrElse(args.name, PathStem(args.xyz[1]))
        outdir == OrElse(args.outdir, PathParent(args.xyz[1]))
    IN  PathJoin(outdir, stem \o ".inp")

\* the arguments main passes to write_compound for the geometry xyz
CompoundCallOf(args, outpath, xyz, steps, global_blocks, step_blocks) ==
    [fn |-> "write_compound", outpath |-> outpath,
     xyzfile |-> PathName(xyz), charge |-> args.charge, mult |-> args.mult,
     steps |-> steps,
     pal |-> args.pal, maxcore_mb |-> args.maxcore_mb, pal_style |-> args.pal_style,
     global_extra_blocks |-> Some(global_blocks),
     step_extra_blocks |-> step_blocks]

\* the arguments main passes to write_single_step for the geometry xyz
SingleCallOf(args, outpath, xyz, global_blocks) ==
    [fn |-> "write_single_step", outpath |-> outpath,
     xyzfile |-> PathName(xyz), charge |-> args.charge, mult |-> args.mult,
     method |-> Some(OrElse(args.method, "wB97X-D4")),
     basis |-> Some(OrElse(args.basis, "def2-TZVPPD")),
     job |-> OrElse(args.job, "sp"),
     grid |-> args.grid, cpcm |-> args.cpcm, smd |-> args.smd, extra |-> args.extra,
     pal |-> args.pal, maxcore_mb |-> args.maxcore_mb, nstates |-> args.nstates,
     moinp |-> args.moinp, pal_style |-> args.pal_style,
     extra_blocks |-> Some(global_blocks)]

\* the call of write_compound in the single-file mode of main
MainCompoundCall(files, args) ==
    CompoundCallOf(args, MainOutpath(args), args.xyz[1], _collect_compound_steps(args),
                   _collect_global_extra_blocks(files, args),
                   Some(_collect_step_extra_blocks(files, args)))

\* the call of write_single_step in the single-file mode of main
MainSingleCall(files, args) ==
    SingleCallOf(args, MainOutpath(args), args.xyz[1],
                 _collect_global_extra_blocks(files, args))

\* the local variables of main that live across the iterations of its
\* folder loop; files holds the geometry files still to process
NoLoop ==
    [files |-> <<>>, compound_mode |-> FALSE, global_blocks |-> <<>>,
     step_blocks |-> NONE, steps |-> NONE]

\* What main does up to its first call of a writer or its return: rc is the
\* return code or NONE, exc the exception that leaves main or NONE, err what
\* is printed to stderr, open the file the called writer opens with the
\* strings it writes and the message it prints, frame the locals of main.
MainReturn(code, err) ==
    [rc |-> Some(code), exc |-> NONE, err |-> err, open |-> NONE, frame |-> NoLoop]

MainRaise(msg) ==
    [rc |-> NONE, exc |-> Some(msg), err |-> <<>>, open |-> NONE, frame |-> NoLoop]

MainOpen(path, writes, msg) ==
    [rc |-> NONE, exc |-> NONE, err |-> <<>>,
     open |-> Some([path |-> path, writes |-> writes, msg |-> msg]), frame |-> NoLoop]

MainLoop(loc) ==
    [rc |-> NONE, exc |-> NONE, err |-> <<>>, open |-> NONE, frame |-> loc]

SkipMessage(outpath) == "[SKIP] " \o outpath \o " exists. Use --overwrite to replace."

MissingBlock(path) == "FileNotFoundError: extra block file not found: " \o path

\* the single-file modes of main
MainSingleFile(jm, files, args) ==
    IF ~Truthy(args.xyz)
    THEN MainReturn(1, <<"[ERR] Provide --xyz (or --folder) unless using --job neb.">>)
    ELSE IF ~Exists(files, args.xyz[1])
    THEN MainReturn(1, <<"[ERR] XYZ not found: " \o args.xyz[1]>>)
    ELSE IF Exists(files, MainOutpath(args)) /\ ~args.overwrite
    THEN MainReturn(0, <<SkipMessage(MainOutpath(args))>>)
    ELSE IF _any_numbered_options_present(args)
    THEN LET missing == FirstMissing(files, BlockFilesRead(args, TRUE))
         IN  IF _collect_compound_steps(args) = <<>>
             THEN MainReturn(1,
                    <<"[ERR] Numbered options detected but no valid steps assembled.">>)
             ELSE IF missing /= NONE
             THEN MainRaise(MissingBlock(missing[1]))
             ELSE MainOpen(MainOutpath(args),
                           CompoundWrites(jm, MainCompoundCall(files, args)),
                           "[OK] Wrote %compound input: " \o MainOutpath(args))
    ELSE IF ~(Truthy(args.job) \/ Truthy(args.method) \/ Truthy(args.basis))
    THEN MainReturn(1,
            <<"[ERR] No job/method/basis provided. Give --job and optionally --method/--basis, or numbered step flags.">>)
    ELSE LET missing == FirstMissing(files, BlockFilesRead(args, FALSE))
         IN  IF missing /= NONE
             THEN MainRaise(MissingBlock(missing[1]))
             ELSE MainOpen(MainOutpath(args),
                           SingleWrites(jm, MainSingleCall(files, args)),
                           "[OK] Wrote " \o MainOutpath(args))

\* the test that sends main into its NEB mode
NebRequested(args) ==
    args.job \in {Some("neb"), Some("nebci"), Some("nebts")} \/ Truthy(args.neb_mode)

NebMode(args) ==
    IF Truthy(args.neb_mode) THEN args.neb_mode[1]
    ELSE IF args.job = Some("neb") THEN "neb"
    ELSE IF args.job = Some("nebci") THEN "neb-ci"
    ELSE "neb-ts"

\* the arguments main passes to write_neb_input
MainNebCall(args) ==
    [fn |-> "write_neb_input",
     outdir |-> Some(OrElse(args.outdir, Cwd)),
     name |-> OrElse(args.name, NebMode(args)),
     mode |-> NebMode(args),
     method |-> Some(OrElse(args.method, "r2SCAN-3c")),
     basis |-> IF Truthy(args.basis) THEN args.basis ELSE NONE,
     grid |-> args.grid, cpcm |-> args.cpcm, smd |-> args.smd, extra |-> args.extra,
     reactant_xyz |-> PathName(args.xyz[1]),
     product_xyz |-> args.neb_product[1],
     ts_xyz |-> args.neb_ts,
     charge |-> args.charge, mult |-> args.mult,
     pal |-> args.pal, maxcore_mb |-> args.maxcore_mb, pal_style |-> args.pal_style,
     springconst |-> args.neb_springconst, maxiter |-> args.neb_maxiter,
     nimages |-> args.nimages]

\* the message write_neb_input prints
NebMessage(a) == "[OK] Wrote minimal " \o Upper(a.mode) \o " input: " \o NebOutpath(a)

\* the NEB mode of main
MainNeb(jm, files, args) ==
    IF ~Truthy(args.xyz)
    THEN MainReturn(1, <<"[ERR] NEB requires --xyz for the reactant structure.">>)
    ELSE IF ~Truthy(args.neb_product)
    THEN MainReturn(1, <<"[ERR] NEB requires --neb-product <product.xyz>.">>)
    ELSE IF Exists(files, NebOutpath(MainNebCall(args))) /\ ~args.overwrite
    THEN MainReturn(0, <<SkipMessage(NebOutpath(MainNebCall(args)))>>)
    ELSE MainOpen(NebOutpath(MainNebCall(args)), NebWrites(jm, MainNebCall(args)),
                  NebMessage(MainNebCall(args)))

\* sorted(Path(args.folder).glob(args.pattern))
FolderFiles(files, args) == SortPaths(Glob(files, args.folder[1], args.pattern))

\* the folder mode of main up to its loop
MainFolder(files, args) ==
    IF FolderFiles(files, args) = <<>>
    THEN MainReturn(0,
            <<"[WARN] No files matched " \o args.pattern \o " in " \o args.folder[1]>>)
    ELSE LET compound_mode == _any_numbered_options_present(args)
             missing       == FirstMissing(files, BlockFilesRead(args, compound_mode))
         IN  IF missing /= NONE
             THEN MainRaise(MissingBlock(missing[1]))
             ELSE MainLoop(
                    [files         |-> FolderFiles(files, args),
                     compound_mode |-> compound_mode,
                     global_blocks |-> _collect_global_extra_blocks(files, args),
                     step_blocks   |-> IF compound_mode
                                       THEN Some(_collect_step_extra_blocks(files, args))
                                       ELSE NONE,
                     steps         |-> IF compound_mode
                                       THEN Some(_collect_compound_steps(args))
                                       ELSE NONE])

\* main from its first line to its first call of a writer, its folder loop
\* or its return
MainEntry(jm, files, args) ==
    IF NebRequested(args) THEN MainNeb(jm, files, args)
    ELSE IF Truthy(args.folder) /\ Truthy(args.name)
    THEN MainReturn(1,
            <<"[ERR] --name cannot be used with --folder (would overwrite files).">>)
    ELSE IF Truthy(args.folder) THEN MainFolder(files, args)
    ELSE MainSingleFile(jm, files, args)

\* outpath of one iteration of the folder loop
FolderOutpath(args, xyz) ==
    PathJoin(OrElse(args.outdir, PathParent(xyz)), OrElse(args.name, PathStem(xyz)) \o ".inp")

\* a slip: the test of --overwrite left out of the folder loop
FolderStep_NoOverwriteTest(jm, files, args, loc, xyz) ==
    IF loc.compound_mode
    THEN [skip |-> FALSE, err |-> <<>>,
          open |-> Some([path   |-> FolderOutpath(args, xyz),
                         writes |-> CompoundWrites(jm,
                                       CompoundCallOf(args, FolderOutpath(args, xyz), xyz,
                                                      loc.steps[1], loc.global_blocks,
                                                      loc.step_blocks)),
                         msg    |-> "[OK] Wrote %compound input: " \o FolderOutpath(args, xyz)])]
    ELSE [skip |-> FALSE, err |-> <<>>,
          open |-> Some([path   |-> FolderOutpath(args, xyz),
                         writes |-> SingleWrites(jm,
                                       SingleCallOf(args, FolderOutpath(args, xyz), xyz,
                                                    loc.global_blocks)),
                         msg    |-> "[OK] Wrote " \o FolderOutpath(args, xyz)])]

\* one iteration of the folder loop of main for the geometry xyz: a skip, or
\* the call of a writer
FolderStep(jm, files, args, loc, xyz) ==
    IF Exists(files, FolderOutpath(args, xyz)) /\ ~args.overwrite
    THEN [skip |-> TRUE, err |-> <<SkipMessage(FolderOutpath(args, xyz))>>, open |-> NONE]
    ELSE IF loc.compound_mode
    THEN [skip |-> FALSE, err |-> <<>>,
          open |-> Some([path   |-> FolderOutpath(args, xyz),
                         writes |-> CompoundWrites(jm,
                                       CompoundCallOf(args, FolderOutpath(args, xyz), xyz,
                                                      loc.steps[1], loc.global_blocks,
                                                      loc.step_blocks)),
                         msg    |-> "[OK] Wrote %compound input: " \o FolderOutpath(args, xyz)])]
    ELSE [skip |-> FALSE, err |-> <<>>,
          open |-> Some([path   |-> FolderOutpath(args, xyz),
                         writes |-> SingleWrites(jm,
                                       SingleCallOf(args, FolderOutpath(args, xyz), xyz,
                                                    loc.global_blocks)),
                         msg    |-> "[OK] Wrote " \o FolderOutpath(args, xyz)])]

----------------------------------------------------------------------------
(* Inputs                                                                  *)

\* the longest list of extra tokens handed to _make_bang_line
MaxExtra == 2

\* the longest list of --extra items handed to write_single_step
MaxExtraItems == 2

\* the longest list of steps handed to write_compound
MaxSteps == 3

SeqsUpTo(S, n) == UNION {[1..m -> S] : m \in 0..n}

ExtraTokenSet == {"SlowConv", "tightSCF", "LooseSCF", "VeryTightSCF", "Opt", ""}

\* calls of _make_bang_line that vary the tokens before the job keywords
BangCallsHead ==
    [fn : {"_make_bang_line"},
     method : {NONE, Some("wB97X-D4")},
     basis : {NONE, Some("def2-SVP"), Some("None"), Some("-"), Some("NA")},
     job : JobKinds,
     grid_token : {Some(""), Some("DEFGRID3")},
     cpcm : {NONE}, smd : {NONE},
     extra_tokens : {<<>>, <<"tightSCF">>},
     force_tokens : {NONE}]

\* calls of _make_bang_line that vary the tokens after the job keywords
BangCallsTail ==
    [fn : {"_make_bang_line"},
     method : {Some("wB97X-D4")},
     basis : {Some("def2-TZVPPD")},
     job : {"sp", "opt", "optfreq"},
     grid_token : {Some("DEFGRID3")},
     cpcm : {NONE, Some("water")}, smd : {NONE, Some("hexane")},
     extra_tokens : SeqsUpTo(ExtraTokenSet, MaxExtra),
     force_tokens : {NONE, Some(<<"NoPop">>)}]

GeomBlock == "%geom\n  MaxIter 100\nend\n"

OutputBlock == "%output\n  PrintLevel Mini\nend\n"

ElpropBlock == "%elprop\n  Dipole true\nend\n"

MethodBlock == "%method\n  D3S6 1.0\nend\n"

RawExtraItems == {"SlowConv,tightSCF", "MORead", " Opt  moread "}

SingleCalls ==
    [fn : {"write_single_step"},
     outpath : {"mol.inp"}, xyzfile : {"mol.xyz"},
     charge : {0, -1}, mult : {1},
     method : {Some("wB97X-D4")}, basis : {Some("def2-TZVPPD")},
     job : {"sp", "opt", "tddft"},
     grid : {Some("DEFGRID3")}, cpcm : {NONE}, smd : {NONE},
     extra : {NONE} \cup {Some(e) : e \in SeqsUpTo(RawExtraItems, MaxExtraItems)},
     pal : {32}, maxcore_mb : {4000}, nstates : {10, 30},
     moinp : {NONE, Some("guess.gbw")},
     pal_style : {"block", "bang"},
     extra_blocks : {NONE, Some(<<>>), Some(<<GeomBlock>>), Some(<<GeomBlock, OutputBlock>>)}]

StepSet ==
    { [job |-> "optfreq", method |-> Some("wB97X-D4"), basis |-> Some("def2-SVPD"),
       grid |-> Some("DEFGRID3"), cpcm |-> NONE, smd |-> NONE,
       extra_tokens |-> <<>>, moinp |-> NONE, nstates |-> 10],
      [job |-> "sp", method |-> Some("wB97M-V"), basis |-> Some("def2-TZVPPD"),
       grid |-> Some("DEFGRID3"), cpcm |-> NONE, smd |-> Some("water"),
       extra_tokens |-> <<"SlowConv">>, moinp |-> Some("guess.gbw"), nstates |-> 10],
      [job |-> "tddft", method |-> Some("CAM-B3LYP"), basis |-> Some("def2-SVPD"),
       grid |-> Some("DEFGRID3"), cpcm |-> Some("water"), smd |-> NONE,
       extra_tokens |-> <<"tightSCF", "MOREAD">>, moinp |-> Some("sp.gbw"),
       nstates |-> 30] }

StepBlockDicts ==
    {NONE, Some(<<>>), Some(1 :> <<GeomBlock>>), Some(2 :> <<GeomBlock, MethodBlock>>),
     Some((1 :> <<MethodBlock>>) @@ (3 :> <<GeomBlock>>))}

CompoundCalls ==
    [fn : {"write_compound"},
     outpath : {"mol.inp"}, xyzfile : {"mol.xyz"},
     charge : {0}, mult : {1},
     steps : SeqsUpTo(StepSet, MaxSteps) \ {<<>>},
     pal : {32}, maxcore_mb : {2000},
     pal_style : {"block", "bang"},
     global_extra_blocks : {NONE, Some(<<OutputBlock>>), Some(<<ElpropBlock, OutputBlock>>)},
     step_extra_blocks : StepBlockDicts]

\* the literal-block file given with --extra-block<k>
StepBlockFile(k) == "blk" \o Str(k) \o ".inp"

StepBlockText(k) == "%geom\n  MaxIter " \o Str(k) \o "00\nend\n\n"

NoStepOptions ==
    [job |-> NONE, method |-> NONE, basis |-> NONE, nstates |-> 10, grid |-> NONE,
     cpcm |-> NONE, smd |-> NONE, extra |-> NONE, moinp |-> NONE, extra_block |-> NONE]

\* what the user may give for index k: nothing, a job, a job and a literal
\* block, or a literal block alone
StepOptionSets(k) ==
    { NoStepOptions,
      [NoStepOptions EXCEPT !.job = Some("opt")],
      [NoStepOptions EXCEPT !.job = Some("sp"), !.extra_block = Some(<<StepBlockFile(k)>>)],
      [NoStepOptions EXCEPT !.extra_block = Some(<<StepBlockFile(k)>>)] }

ArgsDefault ==
    [xyz |-> Some("geoms/mol.xyz"), folder |-> NONE, outdir |-> NONE, name |-> NONE,
     charge |-> 0, mult |-> 1, method |-> NONE, basis |-> NONE, job |-> NONE,
     nstates |-> 10, cpcm |-> NONE, smd |-> NONE, grid |-> Some("DEFGRID3"),
     moinp |-> NONE, extra |-> NONE, extra_block |-> NONE, overwrite |-> FALSE,
     step |-> [k \in StepIndices |-> NoStepOptions],
     pal |-> 32, maxcore_mb |-> 4000, pal_style |-> "block",
     pattern |-> "*.xyz", neb_mode |-> NONE, neb_product |-> NONE, neb_ts |-> NONE,
     neb_springconst |-> 10, neb_maxiter |-> 200, nimages |-> 10]

\* command lines with numbered options
CompoundArgs ==
    { [ArgsDefault EXCEPT !.step = st, !.extra_block = g] :
        st \in {f \in [StepIndices -> UNION {StepOptionSets(k) : k \in StepIndices}] :
                  \A k \in StepIndices : f[k] \in StepOptionSets(k)},
        g \in {NONE, Some(<<"glob.inp">>)} }

\* command lines without numbered options
SingleArgs ==
    { [ArgsDefault EXCEPT !.xyz = x, !.job = j, !.method = m, !.moinp = mo,
                          !.extra_block = g, !.pal_style = "bang"] :
        x \in {NONE, Some("mol.xyz"), Some("geoms/mol.xyz")},
        j \in {NONE, Some("opt"), Some("tddft")},
        m \in {NONE, Some("PBE0")},
        mo \in {NONE, Some("guess.gbw")},
        g \in {NONE, Some(<<"glob.inp">>)} }

MainCalls == [fn : {"main"}, args : CompoundArgs \cup SingleArgs]

\* the files before main runs: the geometry and the literal blocks, one of
\* the literal blocks possibly missing
WaterXyz == "3\n\nO 0 0 0\nH 0 0 1\nH 0 1 0\n"

GeometryFiles == {"geoms/mol.xyz", "geoms/ts.xyz", "geoms/a/mol.xyz", "geoms/b/mol.xyz"}

AllInputFiles ==
    [p \in GeometryFiles |-> WaterXyz]
    @@ ("glob.inp" :> OutputBlock)
    @@ [p \in {StepBlockFile(k) : k \in StepIndices} |->
          StepBlockText(CHOOSE k \in StepIndices : StepBlockFile(k) = p)]

Without(files, path) == [q \in DOMAIN files \ {path} |-> files[q]]

MainFiles == {AllInputFiles, Without(AllInputFiles, StepBlockFile(2))}

\* the second of two calls of write_single_step with the same inputs
SecondCall(c) == [c EXCEPT !.outpath = "copy/mol.inp"]

NebCalls ==
    [fn : {"write_neb_input"},
     outdir : {NONE, Some("path")}, name : {"neb"},
     mode : {"neb", "neb-ci", "neb-ts"},
     method : {Some("r2SCAN-3c")}, basis : {NONE, Some("def2-SVP")},
     grid : {Some("DEFGRID3")}, cpcm : {NONE}, smd : {NONE, Some("water")},
     extra : {NONE, Some(<<"SlowConv">>)},
     reactant_xyz : {"react.xyz"}, product_xyz : {"prod.xyz"},
     ts_xyz : {NONE, Some("guess.xyz")},
     charge : {0}, mult : {1}, pal : {16}, maxcore_mb : {3000},
     pal_style : {"block", "bang"},
     springconst : {10, 1500}, maxiter : {200}, nimages : {10, 8}]

\* command lines of the NEB mode
NebArgs ==
    { [ArgsDefault EXCEPT !.xyz = x, !.job = j, !.neb_mode = m, !.neb_product = pr,
                          !.neb_ts = t, !.outdir = o, !.overwrite = ow,
                          !.extra_block = g] :
        x \in {NONE, Some("geoms/mol.xyz")},
        j \in {NONE, Some("neb"), Some("nebci"), Some("nebts"), Some("opt")},
        m \in {NONE, Some("neb-ci")},
        pr \in {NONE, Some("geoms/ts.xyz")},
        t \in {NONE, Some("guess.xyz")},
        o \in {NONE, Some("out")},
        ow \in BOOLEAN,
        g \in {NONE, Some(<<"gone.inp">>)} }

\* the numbered options of the folder and rerun command lines: none; two
\* steps of which the second reads a restart file; two steps of which the
\* second names a literal block that does not exist; such a literal block
\* alone; a state count alone
RunStepOptions ==
    { [k \in StepIndices |-> NoStepOptions],
      [k \in StepIndices |->
          IF k = 1 THEN [NoStepOptions EXCEPT !.job = Some("optfreq")]
          ELSE IF k = 3 THEN [NoStepOptions EXCEPT !.moinp = Some("guess.gbw")]
          ELSE NoStepOptions],
      [k \in StepIndices |->
          IF k = 1 THEN [NoStepOptions EXCEPT !.job = Some("optfreq")]
          ELSE IF k = 3 THEN [NoStepOptions EXCEPT !.job = Some("sp"),
                                                  !.extra_block = Some(<<"gone.inp">>)]
          ELSE NoStepOptions],
      [k \in StepIndices |->
          IF k = 2 THEN [NoStepOptions EXCEPT !.extra_block = Some(<<"gone.inp">>)]
          ELSE NoStepOptions],
      [k \in StepIndices |->
          IF k = 2 THEN [NoStepOptions EXCEPT !.nstates = 30] ELSE NoStepOptions] }

\* command lines of the folder mode
FolderArgs ==
    { [ArgsDefault EXCEPT !.xyz = NONE, !.folder = Some("geoms"), !.pattern = pt,
                          !.outdir = o, !.name = n, !.overwrite = ow, !.job = Some("tddft"),
                          !.step = st, !.extra_block = g] :
        pt \in {"*.xyz", "*/*.xyz", "*.pdb"},
        o \in {NONE, Some("out")},
        n \in {NONE, Some("all")},
        ow \in BOOLEAN,
        st \in RunStepOptions,
        g \in {NONE, Some(<<"glob.inp">>)} }

\* command lines of the single-file mode run over an earlier output
RerunArgs ==
    { [ArgsDefault EXCEPT !.job = Some("tddft"), !.overwrite = ow, !.step = st,
                          !.pal_style = ps] :
        ow \in BOOLEAN, st \in RunStepOptions, ps \in {"block", "bang"} }

RunCalls == [fn : {"main"}, args : NebArgs \cup FolderArgs \cup RerunArgs]

\* an output left by an earlier run
OldOutput == "! HF STO-3G\n\n* xyzfile 0 1 old.xyz\n"

OldOutputFiles(paths) == [p \in paths |-> OldOutput]

\* the files before a run: no earlier output, an earlier output for some of
\* the geometry files, an earlier output for each of them
RunFiles ==
    { AllInputFiles,
      AllInputFiles @@ OldOutputFiles({"geoms/mol.inp", "out/mol.inp", "neb-ci.inp"}),
      AllInputFiles @@ OldOutputFiles({"geoms/mol.inp", "geoms/ts.inp", "geoms/a/mol.inp",
                                       "geoms/b/mol.inp", "out/mol.inp", "out/ts.inp",
                                       "neb.inp", "neb-ci.inp", "neb-ts.inp",
                                       "out/neb.inp", "out/neb-ci.inp", "out/neb-ts.inp"}) }

----------------------------------------------------------------------------
(* The state machine: one call of one function of orca_mkinput.py          *)

\* literal-block files as users leave them: with no, one or several final
\* newlines, with spaces or tabs at the end of the last line, with blank
\* lines that hold spaces, empty
BlockFiles ==
    [p \in {"b1.inp", "b2.inp", "b3.inp", "b4.inp", "b5.inp", "b6.inp", "b7.inp",
            "b8.inp", "b9.inp"} |->
        CASE p = "b1.inp" -> "%geom\n  MaxIter 100\nend\n"
          [] p = "b2.inp" -> "%geom\n  MaxIter 100\nend"
          [] p = "b3.inp" -> "%geom\n  MaxIter 100\nend\n\n\n"
          [] p = "b4.inp" -> "%geom\n  MaxIter 100\nend  \n"
          [] p = "b5.inp" -> "%geom\n  MaxIter 100\nend\t\n\n"
          [] p = "b6.inp" -> "%geom\n  MaxIter 100\nend\n  \n"
          [] p = "b7.inp" -> "\n\n%output\n  PrintLevel Mini  \nend\n"
          [] p = "b8.inp" -> ""
          [] p = "b9.inp" -> "\n"]

ReadCalls == [fn : {"_read_text_file"}, path : DOMAIN BlockFiles \cup {"gone.inp"}]

\* the file object f of a with block: the path, the strings still to be
\* handed to f.write, the text written but not yet flushed, the number of
\* f.write calls made, and the message printed after the block
OpenFile(path, writes, msg) ==
    Some([path |-> path, writes |-> writes, buf |-> "", written |-> 0, msg |-> msg])

Init ==
    /\ JOB_MAP = JOB_MAP_Literal
    /\ \/ call \in BangCallsHead \cup BangCallsTail /\ fs = <<>> /\ todo = <<>>
       \/ call \in SingleCalls /\ fs = <<>> /\ todo = <<SecondCall(call)>>
       \/ call \in CompoundCalls /\ fs = <<>> /\ todo = <<>>
       \/ call \in NebCalls /\ fs = <<>> /\ todo = <<>>
       \/ call \in MainCalls /\ fs \in MainFiles /\ todo = <<>>
       \/ call \in RunCalls /\ fs \in RunFiles /\ todo = <<>>
       \/ call \in ReadCalls /\ fs = BlockFiles /\ todo = <<>>
    /\ pc = "ready"
    /\ ret = NONE
    /\ exc = NONE
    /\ stdout = <<>>
    /\ stderr = <<>>
    /\ handle = NONE
    /\ frame = NoLoop
    /\ env = NONE

Call_make_bang_line ==
    /\ pc = "ready"
    /\ call.fn = "_make_bang_line"
    /\ ret' = Some(_make_bang_line(JOB_MAP, call.method, call.basis, call.job,
                                   call.grid_token, call.cpcm, call.smd,
                                   call.extra_tokens, call.force_tokens))
    /\ pc' = "returned"
    /\ UNCHANGED <<env, JOB_MAP, call, exc, fs, stdout, stderr, todo, handle, frame>>

Call_read_text_file ==
    /\ pc = "ready"
    /\ call.fn = "_read_text_file"
    /\ IF Exists(fs, call.path)
       THEN /\ ret' = Some(_read_text_file(fs, call.path))
            /\ exc' = exc
            /\ pc' = "returned"
       ELSE /\ exc' = Some(MissingBlock(call.path))
            /\ ret' = ret
            /\ pc' = "raised"
    /\ UNCHANGED <<env, JOB_MAP, call, fs, stdout, stderr, todo, handle, frame>>

\* write_single_step up to the open of its with block
write_single_step ==
    /\ pc = "ready"
    /\ call.fn = "write_single_step"
    /\ fs' = WriteFile(fs, call.outpath, "")
    /\ handle' = OpenFile(call.outpath, SingleWrites(JOB_MAP, call),
                          "[OK] Wrote " \o call.outpath)
    /\ pc' = "writing"
    /\ UNCHANGED <<env, JOB_MAP, call, ret, exc, stdout, stderr, todo, frame>>

\* write_compound up to the open of its with block
write_compound ==
    /\ pc = "ready"
    /\ call.fn = "write_compound"
    /\ call' = [call EXCEPT !.steps = StepsAfter(call.steps)]
    /\ fs' = WriteFile(fs, call.outpath, "")
    /\ handle' = OpenFile(call.outpath, CompoundWrites(JOB_MAP, call),
                          "[OK] Wrote %compound input: " \o call.outpath)
    /\ pc' = "writing"
    /\ UNCHANGED <<env, JOB_MAP, ret, exc, stdout, stderr, todo, frame>>

\* write_neb_input up to the open of its with block
write_neb_input ==
    /\ pc = "ready"
    /\ call.fn = "write_neb_input"
    /\ fs' = WriteFile(fs, NebOutpath(call), "")
    /\ handle' = OpenFile(NebOutpath(call), NebWrites(JOB_MAP, call), NebMessage(call))
    /\ pc' = "writing"
    /\ UNCHANGED <<env, JOB_MAP, call, ret, exc, stdout, stderr, todo, frame>>

\* one f.write(...) of the with block: the text goes to the buffer of f
f_write ==
    /\ pc = "writing"
    /\ handle[1].writes /= <<>>
    /\ handle' = Some([handle[1] EXCEPT !.buf = @ \o Head(handle[1].writes),
                                        !.writes = Tail(@),
                                        !.written = @ + 1])
    /\ UNCHANGED <<env, JOB_MAP, call, pc, ret, exc, fs, stdout, stderr, todo, frame>>

\* the buffer of f goes to the file; when it does before the close is up to
\* the io layer
f_flush ==
    /\ pc = "writing"
    /\ handle[1].buf /= ""
    /\ fs' = WriteFile(fs, handle[1].path, FileText(fs, handle[1].path) \o handle[1].buf)
    /\ handle' = Some([handle[1] EXCEPT !.buf = ""])
    /\ UNCHANGED <<env, JOB_MAP, call, pc, ret, exc, stdout, stderr, todo, frame>>

\* the end of the with block, which closes f, and the print that follows it;
\* the writer returns, to main if main called it
f_close ==
    /\ pc = "writing"
    /\ handle[1].writes = <<>>
    /\ fs' = WriteFile(fs, handle[1].path, FileText(fs, handle[1].path) \o handle[1].buf)
    /\ stdout' = Append(stdout, handle[1].msg)
    /\ handle' = NONE
    /\ pc' = IF call.fn = "main" THEN "loop" ELSE "returned"
    /\ UNCHANGED <<env, JOB_MAP, call, ret, exc, stderr, todo, frame>>

\* main up to its first call of a writer, its folder loop, or its return
main ==
    /\ pc = "ready"
    /\ call.fn = "main"
    /\ LET r == MainEntry(JOB_MAP, fs, call.args)
       IN  /\ ret' = r.rc
           /\ exc' = r.exc
           /\ stderr' = stderr \o r.err
           /\ frame' = r.frame
           /\ handle' = IF r.open /= NONE
                        THEN OpenFile(r.open[1].path, r.open[1].writes, r.open[1].msg)
                        ELSE NONE
           /\ fs' = IF r.open /= NONE THEN WriteFile(fs, r.open[1].path, "") ELSE fs
           /\ pc' = IF r.exc /= NONE THEN "raised"
                    ELSE IF r.rc /= NONE THEN "returned"
                    ELSE IF r.open /= NONE THEN "writing"
                    ELSE "loop"
    /\ UNCHANGED <<env, JOB_MAP, call, stdout, todo>>

\* main after a writer returned or between two iterations of its folder
\* loop: the next geometry file is skipped or written, and after the last
\* one main returns 0
main_loop ==
    /\ pc = "loop"
    /\ IF frame.files = <<>>
       THEN /\ ret' = Some(0)
            /\ pc' = "returned"
            /\ UNCHANGED <<fs, stderr, handle, frame>>
       ELSE LET r == FolderStep(JOB_MAP, fs, call.args, frame, Head(frame.files))
            IN  /\ stderr' = stderr \o r.err
                /\ frame' = [frame EXCEPT
                               !.files = Tail(@),
                               !.steps = IF ~r.skip /\ frame.compound_mode
                                         THEN Some(StepsAfter(@[1])) ELSE @]
                /\ handle' = IF r.skip THEN NONE
                             ELSE OpenFile(r.open[1].path, r.open[1].writes, r.open[1].msg)
                /\ fs' = IF r.skip THEN fs ELSE WriteFile(fs, r.open[1].path, "")
                /\ pc' = IF r.skip THEN "loop" ELSE "writing"
                /\ ret' = ret
    /\ UNCHANGED <<env, JOB_MAP, call, exc, stdout, todo>>

\* the caller makes its next call
next_call ==
    /\ pc = "returned"
    /\ todo /= <<>>
    /\ call' = Head(todo)
    /\ todo' = Tail(todo)
    /\ pc' = "ready"
    /\ UNCHANGED <<env, JOB_MAP, ret, exc, fs, stdout, stderr, handle, frame>>

Next ==
    \/ Call_make_bang_line
    \/ Call_read_text_file
    \/ write_single_step
    \/ write_compound
    \/ write_neb_input
    \/ f_write
    \/ f_flush
    \/ f_close
    \/ main
    \/ main_loop
    \/ next_call

Spec == Init /\ [][Next]_vars

----------------------------------------------------------------------------
(* Reading a document back                                                 *)

Lines(text) == SplitOn(text, "\n")

\* the tokens of a directive line: what follows "! ", cut at every space
LineTokens(line) ==
    IF Len(line) <= 2 THEN <<>> ELSE SplitOn(SubSeq(line, 3, Len(line)), " ")

\* the positions of seq whose element satisfies the set-membership test
Positions(seq, S) == {i \in 1..Len(seq) : seq[i] \in S}

Count(seq, S) == Cardinality(Positions(seq, S))

BangReturned == pc = "returned" /\ call.fn = "_make_bang_line"

BangLine == ret[1]

\* the job-kind keyword table as the specification gives it
SpecJobKeywords(job) ==
    CASE job = "sp"      -> <<>>
      [] job = "opt"     -> <<"Opt">>
      [] job = "freq"    -> <<"Freq">>
      [] job = "optfreq" -> <<"Opt", "Freq">>
      [] job = "optts"   -> <<"OptTS">>
      [] job = "tddft"   -> <<>>
      [] job = "neb"     -> <<"NEB">>
      [] job = "nebci"   -> <<"NEB-CI">>
      [] job = "nebts"   -> <<"NEB-TS">>
      [] OTHER           -> <<>>

\* the tokens a call supplies before the job keywords, without the default
\* convergence token
HeadTokens(c) ==
       (IF c.method /= NONE THEN <<c.method[1]>> ELSE <<>>)
    \o (IF c.basis /= NONE /\ c.basis[1] \notin {"None", "-", "NA"}
        THEN <<c.basis[1]>> ELSE <<>>)
    \o (IF c.grid_token /= NONE THEN <<c.grid_token[1]>> ELSE <<>>)

SolventTokens(c) ==
       (IF c.cpcm /= NONE THEN <<"CPCM(" \o c.cpcm[1] \o ")">> ELSE <<>>)
    \o (IF c.smd /= NONE THEN <<"SMD(" \o c.smd[1] \o ")">> ELSE <<>>)

TailTokens(c) ==
    c.extra_tokens \o (IF c.force_tokens /= NONE THEN c.force_tokens[1] ELSE <<>>)

NonEmpty(seq) == SelectSeq(seq, LAMBDA t : t /= "")

\* a token that asks for a convergence mode, whatever its case
IsScfToken(t) ==
    \/ StartsWith(Lower(t), "tightscf")
    \/ StartsWith(Lower(t), "loosescf")

----------------------------------------------------------------------------
(* Claims on the directive line                                            *)

\* C1: the directive line starts with "! " and its tokens, single-space
\* separated and none empty, are in order: method, basis (no sentinel), grid,
\* the default TightSCF token if one is inserted, the job-kind keywords, the
\* CPCM token, the SMD token, the extra tokens as supplied, the forced tokens.
C1_TokenOrder ==
    BangReturned =>
        /\ StartsWith(BangLine, "! ")
        /\ \E default \in {<<>>, <<"TightSCF">>} :
              LineTokens(BangLine) =
                 NonEmpty(HeadTokens(call) \o default \o SpecJobKeywords(call.job)
                          \o SolventTokens(call) \o TailTokens(call))
        /\ (/\ call.method = Some("wB97X-D4") /\ call.basis = Some("def2-TZVPPD")
            /\ call.job = "optfreq" /\ call.grid_token = Some("DEFGRID3")
            /\ call.cpcm = NONE /\ call.smd = NONE
            /\ call.extra_tokens = <<>> /\ call.force_tokens = NONE)
           => BangLine = "! wB97X-D4 def2-TZVPPD DEFGRID3 TightSCF Opt Freq"

\* a call with every segment present, an empty and a repeated extra token
C1_Witness ==
    /\ BangReturned
    /\ call.extra_tokens = <<"", "Opt">>
    /\ BangLine = "! wB97X-D4 def2-TZVPPD DEFGRID3 TightSCF Opt Freq CPCM(water) SMD(hexane) Opt NoPop"

\* C2: JOB_MAP is the fixed table in every state, no operation changes it,
\* and the job-kind keywords found in a directive line, between the tokens
\* before them and the tokens after them, are the table's keywords for the job.
C2_JobKeywords ==
    /\ JOB_MAP = [j \in JobKinds |-> SpecJobKeywords(j)]
    /\ BangReturned =>
          LET toks == LineTokens(BangLine)
              post == Len(NonEmpty(SolventTokens(call) \o TailTokens(call)))
              kw   == SpecJobKeywords(call.job)
              from == Len(toks) - post - Len(kw)
          IN  /\ from >= 0
              /\ SubSeq(toks, from + 1, from + Len(kw)) = kw
              /\ \A i \in 1..from : toks[i] \in
                    {HeadTokens(call)[k] : k \in 1..Len(HeadTokens(call))} \cup {"TightSCF"}

C2_Witness ==
    /\ BangReturned
    /\ call.job = "nebci"
    /\ call.basis = Some("NA")
    /\ BangLine = "! wB97X-D4 DEFGRID3 TightSCF NEB-CI"

\* C3: when an extra token starts, whatever its case, with tightscf or
\* loosescf, the line holds no convergence token beyond the user's; when none
\* does, the line holds exactly one, the default TightSCF.
C3_NoDuplicateScf ==
    BangReturned =>
        LET toks  == LineTokens(BangLine)
            inLn  == {i \in 1..Len(toks) : IsScfToken(toks[i])}
            user  == {i \in 1..Len(call.extra_tokens) : IsScfToken(call.extra_tokens[i])}
        IN  IF user /= {}
            THEN /\ Cardinality(inLn) = Cardinality(user)
                 /\ Count(toks, {"TightSCF"}) = Count(call.extra_tokens, {"TightSCF"})
            ELSE /\ Cardinality(inLn) = 1
                 /\ Count(toks, {"TightSCF"}) = 1

C3_Witness ==
    /\ BangReturned
    /\ call.extra_tokens = <<"SlowConv", "tightSCF">>
    /\ BangLine = "! wB97X-D4 def2-TZVPPD DEFGRID3 Opt SlowConv tightSCF"

\* C4 as claimed: for job opt the line holds Opt exactly once, after the
\* basis, grid and convergence tokens and before any solvent token.
C4_OptOnceAsClaimed ==
    (BangReturned /\ call.job = "opt") =>
        LET toks == LineTokens(BangLine)
            opt  == Positions(toks, {"Opt"})
        IN  /\ Cardinality(opt) = 1
            /\ \A o \in opt : \A i \in 1..Len(toks) :
                  /\ (IsScfToken(toks[i]) => i < o)
                  /\ (call.basis /= NONE /\ toks[i] = call.basis[1] => i < o)
                  /\ (call.grid_token /= NONE /\ toks[i] = call.grid_token[1] => i < o)
                  /\ (StartsWith(toks[i], "CPCM(") \/ StartsWith(toks[i], "SMD(") => o < i)

\* C4 as amended: for job opt, the tokens that precede the user's extra and
\* forced tokens hold Opt exactly once, after the method, basis and grid
\* tokens and the default TightSCF token, and before any solvent token.
C4_OptOnceBeforeExtras ==
    (BangReturned /\ call.job = "opt") =>
        LET toks == LineTokens(BangLine)
            own  == SubSeq(toks, 1, Len(toks) - Len(NonEmpty(TailTokens(call))))
            opt  == Positions(own, {"Opt"})
        IN  /\ Cardinality(opt) = 1
            /\ \A o \in opt : \A i \in 1..Len(own) :
                  /\ (own[i] = "TightSCF" => i < o)
                  /\ (call.method /= NONE /\ own[i] = call.method[1] => i < o)
                  /\ (call.basis /= NONE /\ own[i] = call.basis[1] => i < o)
                  /\ (call.grid_token /= NONE /\ own[i] = call.grid_token[1] => i < o)
                  /\ (StartsWith(own[i], "CPCM(") \/ StartsWith(own[i], "SMD(") => o < i)

C4_Witness ==
    /\ BangReturned
    /\ call.job = "opt"
    /\ call.extra_tokens = <<"tightSCF", "Opt">>
    /\ BangLine = "! wB97X-D4 def2-TZVPPD DEFGRID3 Opt CPCM(water) SMD(hexane) tightSCF Opt"

----------------------------------------------------------------------------
(* Claims on the documents                                                 *)

SingleReturned == pc = "returned" /\ call.fn = "write_single_step"

CompoundReturned == pc = "returned" /\ call.fn = "write_compound"

\* the lines of the document the call wrote
Doc == Lines(FileText(fs, call.outpath))

NonBlank(lines) == SelectSeq(lines, LAMBDA l : l /= "")

\* the ascending positions of the lines of doc that are in S
IndexSeq(doc, S) == SelectSeq([i \in 1..Len(doc) |-> i], LAMBDA i : doc[i] \in S)

\* the non-blank lines of a list of literal blocks given as NONE or <<list>>
BlockLines(blocks) ==
    IF blocks = NONE THEN <<>>
    ELSE NonBlank(Flatten([i \in 1..Len(blocks[1]) |-> Lines(blocks[1][i])]))

GeometryLine(c) == "* xyzfile " \o Str(c.charge) \o " " \o Str(c.mult) \o " " \o c.xyzfile

IsMoread(t) == Lower(t) = "moread"

MoreadCount(toks) == Cardinality({i \in 1..Len(toks) : IsMoread(toks[i])})

\* the rule of C5 for one directive line, the user's extra tokens and the
\* restart file of its job
MoreadRule(toks, user, moinp) ==
    IF \E i \in 1..Len(user) : IsMoread(user[i])
    THEN /\ MoreadCount(toks) = MoreadCount(user)
         /\ Len(toks) >= Len(user)
         /\ SubSeq(toks, Len(toks) - Len(user) + 1, Len(toks)) = user
    ELSE moinp /= NONE =>
         /\ MoreadCount(toks) = 1
         /\ Len(toks) > Len(user)
         /\ toks[Len(toks)] = "moread"
         /\ SubSeq(toks, Len(toks) - Len(user), Len(toks) - 1) = user

\* the directive line of stage i of a compound document: the line after the
\* i-th New_step marker
StageBangLine(doc, i) == doc[IndexSeq(doc, {"New_step"})[i] + 1]

\* C5: in write_single_step and in every stage of write_compound, a restart
\* file with no moread among the extra tokens (whatever its case) gives a
\* directive line with exactly one moread token, placed after the user's
\* extra tokens; extras that already hold it get none added.
C5_ImplicitMoread ==
    /\ SingleReturned =>
          MoreadRule(LineTokens(Doc[1]), _parse_extras(call.extra), call.moinp)
    /\ CompoundReturned =>
          /\ Len(IndexSeq(Doc, {"New_step"})) = Len(call.steps)
          /\ \A i \in 1..Len(call.steps) :
                MoreadRule(LineTokens(StageBangLine(Doc, i)),
                           call.steps[i].extra_tokens, call.steps[i].moinp)

C5_Witness ==
    /\ SingleReturned
    /\ call.moinp = Some("guess.gbw")
    /\ call.extra = Some(<<"SlowConv,tightSCF">>)
    /\ Doc[1] = "! wB97X-D4 def2-TZVPPD DEFGRID3 Opt SlowConv tightSCF moread"

\* the non-blank lines of stage i: from its New_step to its Step_end marker
StageBlock(doc, i) ==
    NonBlank(SubSeq(doc, IndexSeq(doc, {"New_step"})[i], IndexSeq(doc, {"Step_end"})[i]))

\* the literal blocks write_compound is given for stage i, as non-blank lines
StageBlockLines(c, i) ==
    IF c.step_extra_blocks /= NONE /\ i \in DOMAIN c.step_extra_blocks[1]
    THEN BlockLines(Some(c.step_extra_blocks[1][i]))
    ELSE <<>>

ScfSection == <<"%scf", "  MaxIter 300", "end">>

\* C6: a compound document of N >= 1 stages holds the geometry-binding line
\* exactly once, in stage 1 after its %scf section and literal blocks and
\* right before its Step_end marker, and in no other stage.
C6_GeometryOnce ==
    (CompoundReturned /\ Len(call.steps) >= 1) =>
        LET doc  == Doc
            geom == IndexSeq(doc, {GeometryLine(call)})
            ns   == IndexSeq(doc, {"New_step"})
            se   == IndexSeq(doc, {"Step_end"})
            b1   == StageBlock(doc, 1)
            tail == ScfSection \o StageBlockLines(call, 1)
                    \o <<GeometryLine(call), "Step_end">>
        IN  /\ Len(geom) = 1
            /\ \A i \in 1..Len(doc) : StartsWith(doc[i], "* xyzfile") => i = geom[1]
            /\ Len(ns) = Len(call.steps) /\ Len(se) = Len(call.steps)
            /\ ns[1] < geom[1] /\ geom[1] < se[1]
            /\ Len(b1) >= Len(tail)
            /\ SubSeq(b1, Len(b1) - Len(tail) + 1, Len(b1)) = tail

\* the specification's example: stage 1 optfreq, stage 2 sp
C6_Witness ==
    /\ CompoundReturned
    /\ Len(call.steps) = 2
    /\ call.steps[1].job = "optfreq" /\ call.steps[2].job = "sp"
    /\ call.step_extra_blocks = Some(2 :> <<GeomBlock, MethodBlock>>)
    /\ Len(IndexSeq(Doc, {"* xyzfile 0 1 mol.xyz"})) = 1

ControlLines(c) ==
    {"%pal", "  nprocs " \o Str(c.pal), "end", "%MaxCore " \o Str(c.maxcore_mb),
     "%tddft", "  nroots " \o Str(c.nstates), "%scf", "  MaxIter 300"}

MoinpLine(moinp) == "%moinp \"" \o moinp[1] \o "\""

\* C7: write_single_step emits the directive line (then ! PAL<n> in bang
\* style), the control sections, the %moinp section if a restart file is
\* given, the literal blocks if any, and last the geometry-binding line.
C7_SingleOrder ==
    SingleReturned =>
        LET d     == NonBlank(Doc)
            first == IF call.pal_style = "bang" THEN 3 ELSE 2
            lits  == BlockLines(call.extra_blocks)
            mo    == IF call.moinp /= NONE THEN <<MoinpLine(call.moinp)>> ELSE <<>>
            last  == Len(d) - Len(lits) - Len(mo) - 1
        IN  /\ StartsWith(d[1], "! ") /\ ~StartsWith(d[1], "! PAL")
            /\ LineTokens(d[1])[1] = call.method[1]
            /\ (call.pal_style = "bang") => d[2] = "! PAL" \o Str(call.pal)
            /\ last >= first
            /\ \A i \in first..last : d[i] \in ControlLines(call)
            /\ "%MaxCore " \o Str(call.maxcore_mb) \in {d[i] : i \in first..last}
            /\ "%scf" \in {d[i] : i \in first..last}
            /\ SubSeq(d, last + 1, Len(d)) = mo \o lits \o <<GeometryLine(call)>>
            /\ \A i \in 1..last : ~StartsWith(d[i], "%moinp") /\ ~StartsWith(d[i], "* xyzfile")

C7_Witness ==
    /\ SingleReturned
    /\ call.pal_style = "bang"
    /\ call.moinp = Some("guess.gbw")
    /\ call.extra_blocks = Some(<<GeomBlock, OutputBlock>>)
    /\ call.charge = -1
    /\ SubSeq(NonBlank(Doc), Len(NonBlank(Doc)) - 7, Len(NonBlank(Doc)))
          = <<"%moinp \"guess.gbw\"", "%geom", "  MaxIter 100", "end",
              "%output", "  PrintLevel Mini", "end", "* xyzfile -1 1 mol.xyz">>

\* the non-blank lines the claim C8 gives stage i of a compound document,
\* after its directive line
StageSections(c, i) ==
       (IF c.steps[i].moinp /= NONE THEN <<MoinpLine(c.steps[i].moinp)>> ELSE <<>>)
    \o (IF c.steps[i].job = "tddft"
        THEN <<"%tddft", "  nroots " \o Str(c.steps[i].nstates), "end">> ELSE <<>>)
    \o ScfSection
    \o StageBlockLines(c, i)
    \o (IF i = 1 THEN <<GeometryLine(c)>> ELSE <<>>)
    \o <<"Step_end">>

\* C8: one %compound wrapper; every stage, in the supplied order, is
\* New_step, its directive line, %moinp if it has a restart file, %tddft iff
\* its job is tddft, %scf, its literal blocks, the geometry-binding line for
\* stage 1 only, Step_end; the markers are balanced and not nested and one
\* EndRun follows the last stage.
C8_StageLayout ==
    CompoundReturned =>
        LET doc == Doc
            n   == Len(call.steps)
            ns  == IndexSeq(doc, {"New_step"})
            se  == IndexSeq(doc, {"Step_end"})
            cp  == IndexSeq(doc, {"%compound"})
            er  == IndexSeq(doc, {"EndRun"})
        IN  /\ Len(ns) = n /\ Len(se) = n /\ Len(cp) = 1 /\ Len(er) = 1
            /\ n >= 1 => (cp[1] + 1 = ns[1] /\ se[n] < er[1])
            /\ NonBlank(SubSeq(doc, er[1], Len(doc))) = <<"EndRun">>
            /\ \A i \in 1..n :
                  /\ ns[i] < se[i]
                  /\ i < n => NonBlank(SubSeq(doc, se[i], ns[i + 1])) = <<"Step_end", "New_step">>
                  /\ LET b == StageBlock(doc, i)
                     IN  /\ Len(b) >= 2
                         /\ b[1] = "New_step"
                         /\ StartsWith(b[2], "! ")
                         /\ LineTokens(b[2])[1] = call.steps[i].method[1]
                         /\ SubSeq(b, 3, Len(b)) = StageSections(call, i)

C8_Witness ==
    /\ CompoundReturned
    /\ Len(call.steps) = 3
    /\ call.steps[1].job = "sp" /\ call.steps[2].job = "optfreq" /\ call.steps[3].job = "tddft"
    /\ call.step_extra_blocks = Some((1 :> <<MethodBlock>>) @@ (3 :> <<GeomBlock>>))
    /\ StageBlock(Doc, 3) =
          <<"New_step", "! CAM-B3LYP def2-SVPD DEFGRID3 CPCM(water) tightSCF MOREAD",
            "%moinp \"sp.gbw\"", "%tddft", "  nroots 30", "end",
            "%scf", "  MaxIter 300", "end", "%geom", "  MaxIter 100", "end", "Step_end">>

\* the parallelism rendering of a header, per style
PalLines(c) ==
    IF c.pal_style = "bang" THEN <<"! PAL" \o Str(c.pal)>>
    ELSE <<"%pal", "  nprocs " \o Str(c.pal), "end">>

\* C10: before the %compound wrapper write_compound emits one header: the
\* parallelism rendering, then %MaxCore, then the global literal blocks; none
\* of them appears again after the %compound line.
C10_SharedHeader ==
    CompoundReturned =>
        LET doc  == Doc
            cp   == IndexSeq(doc, {"%compound"})
            head == PalLines(call) \o <<"%MaxCore " \o Str(call.maxcore_mb)>>
                    \o BlockLines(call.global_extra_blocks)
            once == {head[i] : i \in 1..Len(head)} \ {"end"}
        IN  /\ Len(cp) = 1
            /\ NonBlank(SubSeq(doc, 1, cp[1] - 1)) = head
            /\ \A i \in cp[1]..Len(doc) :
                  /\ doc[i] \notin once
                  /\ ~StartsWith(doc[i], "! PAL")
                  /\ ~StartsWith(doc[i], "%pal")
                  /\ ~StartsWith(doc[i], "%MaxCore")

C10_Witness ==
    /\ CompoundReturned
    /\ call.pal_style = "block"
    /\ Len(call.steps) = 2
    /\ SubSeq(Doc, 1, 14) =
          <<"%pal", "  nprocs 32", "end", "%MaxCore 2000", "",
            "%elprop", "  Dipole true", "end", "",
            "%output", "  PrintLevel Mini", "end", "", "%compound">>

\* main returned after writing a compound document
MainWroteCompound ==
    /\ pc = "returned" /\ call.fn = "main"
    /\ _any_numbered_options_present(call.args)
    /\ stdout /= <<>>

\* run occurs in seq as consecutive elements
ContainsRun(seq, run) ==
    \E from \in 0..(Len(seq) - Len(run)) : SubSeq(seq, from + 1, from + Len(run)) = run

\* the position, among the stages of the document, of the stage assembled
\* from the numbered options of index k
StageOfIndex(args, k) == Cardinality({j \in 1..k : NumberedPresent(args, j)})

\* C9: for every stage assembled from the numbered options of index k, the
\* literal blocks given with --extra-block<k> are emitted inside that stage's
\* block of the compound document, whatever indices the user supplied.
C9_BlocksInOwnStage ==
    MainWroteCompound =>
        LET args == call.args
            doc  == Lines(FileText(fs, MainOutpath(args)))
        IN  \A k \in StepIndices :
               (NumberedPresent(args, k) /\ TruthyList(args.step[k].extra_block)) =>
                   ContainsRun(StageBlock(doc, StageOfIndex(args, k)),
                               BlockLines(Some(ReadAll(fs, args.step[k].extra_block[1]))))

----------------------------------------------------------------------------
(* Claims on the parallelism rendering, the control sections, the NEB      *)
(* document                                                                *)

NebReturned == pc = "returned" /\ call.fn = "write_neb_input"

\* a writer called on its own has returned
WriterReturned == SingleReturned \/ CompoundReturned \/ NebReturned

\* the lines of the document that writer wrote
WrittenDoc ==
    Lines(FileText(fs, IF call.fn = "write_neb_input" THEN NebOutpath(call) ELSE call.outpath))

\* the positions of doc where a %pal section for n processes starts
PalBlockAt(doc, n) ==
    {i \in 1..(Len(doc) - 2) :
        doc[i] = "%pal" /\ doc[i + 1] = "  nprocs " \o Str(n) /\ doc[i + 2] = "end"}

\* C11: every document written by write_single_step, write_compound or
\* write_neb_input with style block or bang holds exactly one parallelism
\* rendering: the %pal section in block style, the line ! PAL<n> in bang
\* style, never both and never neither.
C11_OneParallelism ==
    (WriterReturned /\ call.pal_style \in {"block", "bang"}) =>
        LET doc    == WrittenDoc
            blockN == Cardinality(PalBlockAt(doc, call.pal))
            bangN  == Count(doc, {"! PAL" \o Str(call.pal)})
        IN  /\ blockN + bangN = 1
            /\ (call.pal_style = "block") <=> (blockN = 1)
            /\ (call.pal_style = "bang") <=> (bangN = 1)
            /\ Cardinality({i \in 1..Len(doc) : StartsWith(doc[i], "%pal")}) = blockN
            /\ Cardinality({i \in 1..Len(doc) : StartsWith(doc[i], "! PAL")}) = bangN

C11_Witness ==
    /\ NebReturned
    /\ call.pal_style = "bang"
    /\ WrittenDoc[3] = "! PAL16"
    /\ PalBlockAt(WrittenDoc, 16) = {}

\* the control sections the claim C12 gives a single-stage document
SingleControlLines(c) ==
       (IF c.pal_style = "block" THEN <<"%pal", "  nprocs " \o Str(c.pal), "end">> ELSE <<>>)
    \o <<"%MaxCore " \o Str(c.maxcore_mb)>>
    \o (IF c.job = "tddft" THEN <<"%tddft", "  nroots " \o Str(c.nstates), "end">> ELSE <<>>)
    \o <<"%scf", "  MaxIter 300", "end">>

\* C12: in a single-stage document the control sections follow the directive
\* lines in the order %pal (block style only), %MaxCore, %tddft, %scf; the
\* %tddft section, with nroots the requested state count, is there iff the
\* job is tddft, and the %scf section with MaxIter 300 is always there.
C12_ControlSections ==
    SingleReturned =>
        LET d     == NonBlank(Doc)
            first == IF call.pal_style = "bang" THEN 3 ELSE 2
            want  == SingleControlLines(call)
        IN  /\ Len(d) >= first + Len(want) - 1
            /\ SubSeq(d, first, first + Len(want) - 1) = want
            /\ Count(Doc, {"%tddft"}) = (IF call.job = "tddft" THEN 1 ELSE 0)
            /\ Count(Doc, {"%scf"}) = 1
            /\ Count(Doc, {"  MaxIter 300"}) = 1
            /\ Count(Doc, {"%MaxCore " \o Str(call.maxcore_mb)}) = 1

\* the specification's example: tddft with 30 states
C12_Witness ==
    /\ SingleReturned
    /\ call.job = "tddft" /\ call.nstates = 30 /\ call.pal_style = "block"
    /\ SubSeq(NonBlank(Doc), 2, 11) =
          <<"%pal", "  nprocs 32", "end", "%MaxCore 4000",
            "%tddft", "  nroots 30", "end", "%scf", "  MaxIter 300", "end">>

\* the job-kind keyword the claim C13 gives each mode
NebKeyword(mode) ==
    CASE mode = "neb"    -> "NEB"
      [] mode = "neb-ci" -> "NEB-CI"
      [] mode = "neb-ts" -> "NEB-TS"

StageMarkers == {"%compound", "New_step", "Step_end", "EndRun"}

\* the layout the claim C13 gives the non-blank lines d of a NEB document
\* written for the arguments c
NebLayout(d, c) ==
    LET first == IF c.pal_style = "bang" THEN 3 ELSE 2
        ctl   ==    (IF c.pal_style = "block"
                     THEN <<"%pal", "  nprocs " \o Str(c.pal), "end">> ELSE <<>>)
                 \o <<"%MaxCore " \o Str(c.maxcore_mb), "%scf", "  MaxIter 300", "end">>
        neb   == first + Len(ctl)
        ts    == IF c.ts_xyz /= NONE THEN 1 ELSE 0
    IN  /\ Len(d) = neb + 6 + ts
        /\ StartsWith(d[1], "! ")
        /\ Count(LineTokens(d[1]), {"NEB", "NEB-CI", "NEB-TS"}) = 1
        /\ Count(LineTokens(d[1]), {NebKeyword(c.mode)}) = 1
        /\ (c.pal_style = "bang") => d[2] = "! PAL" \o Str(c.pal)
        /\ SubSeq(d, first, neb - 1) = ctl
        /\ d[neb] = "%NEB"
        /\ d[neb + 1] = "  NEB_END_XYZFILE \"" \o c.product_xyz \o "\""
        /\ (c.ts_xyz /= NONE) => d[neb + 2] = "  NEB_TS_XYZFILE \"" \o c.ts_xyz[1] \o "\""
        /\ StartsWith(d[neb + 2 + ts], "  SpringConst ")
        /\ d[neb + 3 + ts] = "  MAXITER " \o Str(c.maxiter)
        /\ d[neb + 4 + ts] = "  NImages " \o Str(c.nimages)
        /\ d[neb + 5 + ts] = "end"
        /\ d[neb + 6 + ts] = "* xyzfile " \o Str(c.charge) \o " " \o Str(c.mult)
                              \o " " \o c.reactant_xyz
        /\ Count(d, {"%NEB"}) = 1
        /\ Count(d, StageMarkers) = 0
        /\ \A i \in 1..Len(d) : StartsWith(d[i], "  NEB_TS_XYZFILE") => c.ts_xyz /= NONE

\* main returned after write_neb_input wrote a document
MainWroteNeb ==
    /\ pc = "returned" /\ call.fn = "main"
    /\ stdout /= <<>>
    /\ StartsWith(stdout[1], "[OK] Wrote minimal ")

\* the mode the command line asks for: --neb-mode, or else the one of --job
ClaimedNebMode(args) ==
    IF args.neb_mode /= NONE THEN args.neb_mode[1]
    ELSE CASE args.job = Some("neb")   -> "neb"
           [] args.job = Some("nebci") -> "neb-ci"
           [] args.job = Some("nebts") -> "neb-ts"

----------------------------------------------------------------------------
(* Claims on repeated calls and on the arguments of the writers            *)

\* the second of the two calls of write_single_step has returned
SecondReturned == SingleReturned /\ todo = <<>> /\ call = SecondCall(call)

\* the output path of the first of the two calls
FirstOutpath == "mol.inp"

InFolderLoop ==
    /\ call.fn = "main"
    /\ pc \in {"loop", "writing", "returned"}
    /\ frame.compound_mode

\* the files a finished run of main reports as written
WrittenPaths ==
    {SubSeq(stdout[i], Len("[OK] Wrote %compound input: ") + 1, Len(stdout[i])) :
        i \in {j \in 1..Len(stdout) : StartsWith(stdout[j], "[OK] Wrote %compound input: ")}}

\* the directive lines of a document
DirectiveLines(text) == SelectSeq(Lines(text), LAMBDA l : StartsWith(l, "! "))

\* C15: no writer changes what it is given. The call of write_compound
\* leaves its steps list and every step's extra_tokens as they were, the
\* call of write_single_step leaves its extra argument as it was, and across
\* the iterations of main's folder loop the steps stay those collected from
\* the command line; so every output of a batch run holds the same directive
\* lines and no directive line holds moread more than once.
C15_ArgumentsKept ==
    /\ [][/\ (pc = "ready" /\ call.fn = "write_compound" /\ pc' = "writing")
                => call'.steps = call.steps
          /\ (pc = "ready" /\ call.fn = "write_single_step" /\ pc' = "writing")
                => call'.extra = call.extra
          /\ (pc = "loop" /\ pc' \in {"loop", "writing"})
                => frame'.steps = frame.steps]_vars
    /\ [](InFolderLoop =>
            /\ frame.steps = Some(_collect_compound_steps(call.args))
            /\ \A p \in WrittenPaths, q \in WrittenPaths :
                  pc = "returned" =>
                     /\ DirectiveLines(FileText(fs, p)) = DirectiveLines(FileText(fs, q))
                     /\ \A i \in 1..Len(DirectiveLines(FileText(fs, p))) :
                           MoreadCount(LineTokens(DirectiveLines(FileText(fs, p))[i])) <= 1)

\* a batch run wrote two compound documents whose second step reads a
\* restart file, and the step still holds no moread token
C15_Witness ==
    /\ InFolderLoop /\ pc = "returned"
    /\ WrittenPaths = {"geoms/mol.inp", "geoms/ts.inp"}
    /\ frame.steps[1][2].moinp = Some("guess.gbw")
    /\ frame.steps[1][2].extra_tokens = <<>>
    /\ DirectiveLines(FileText(fs, "geoms/ts.inp")) =
          <<"! wB97X-D4 def2-SVPD DEFGRID3 TightSCF Opt Freq",
            "! wB97X-D4 def2-SVPD DEFGRID3 TightSCF moread">>


----------------------------------------------------------------------------
(* Claims on the runs of main                                              *)

MainCalled == call.fn = "main"

MainReturned == MainCalled /\ pc = "returned"

\* the command line asks for the NEB mode
NebAsked(args) == args.neb_mode /= NONE \/ args.job \in {Some("neb"), Some("nebci"), Some("nebts")}

\* the geometry files the folder of the model holds for each pattern
ExpectedMatches(pattern) ==
    CASE pattern = "*.xyz"   -> {"geoms/mol.xyz", "geoms/ts.xyz"}
      [] pattern = "*/*.xyz" -> {"geoms/a/mol.xyz", "geoms/b/mol.xyz"}
      [] OTHER               -> {}

\* the geometry files a run of main is to turn into documents
ExpectedInputs(args) ==
    IF NebAsked(args)
    THEN (IF args.xyz /= NONE /\ args.neb_product /= NONE THEN {args.xyz[1]} ELSE {})
    ELSE IF args.folder /= NONE
    THEN (IF args.name /= NONE THEN {} ELSE ExpectedMatches(args.pattern))
    ELSE IF args.xyz /= NONE THEN {args.xyz[1]} ELSE {}

\* the output path of the document for the geometry file xyz
ExpectedOutput(args, xyz) ==
    IF NebAsked(args)
    THEN (IF args.outdir /= NONE THEN args.outdir[1] ELSE Cwd)
         \o "/" \o ClaimedNebMode(args) \o ".inp"
    ELSE (IF args.outdir /= NONE THEN args.outdir[1] ELSE PathParent(xyz))
         \o "/" \o PathStem(xyz) \o ".inp"

SkipLine(path) == "[SKIP] " \o path \o " exists. Use --overwrite to replace."

InSeq(x, seq) == \E i \in 1..Len(seq) : seq[i] = x

\* C16: in the NEB, folder and single-file modes of main an output path that
\* exists is opened for writing only under --overwrite, and only the file
\* that is open changes; without the flag the file keeps its text, its
\* [SKIP] message is reported, and a batch run goes on to the next geometry
\* file, so that every matched file ends with a skip or a written document.
C16_OverwriteOnly ==
    /\ [][MainCalled =>
            /\ (handle = NONE /\ handle' /= NONE /\ Exists(fs, handle'[1].path))
                  => call.args.overwrite
            /\ \A p \in DOMAIN fs :
                  /\ p \in DOMAIN fs'
                  /\ fs'[p] /= fs[p] => (handle' /= NONE /\ p = FsKey(handle'[1].path))
                                        \/ (handle /= NONE /\ p = FsKey(handle[1].path))
            /\ (pc = "loop" /\ frame.files /= <<>> /\ ~call.args.overwrite
                /\ Exists(fs, ExpectedOutput(call.args, Head(frame.files))))
                  => /\ fs' = fs
                     /\ stderr' = Append(stderr,
                                     SkipLine(ExpectedOutput(call.args, Head(frame.files))))
                     /\ pc' = "loop"
                     /\ frame'.files = Tail(frame.files)]_vars
    /\ []((MainReturned /\ ret = Some(0) /\ ~call.args.overwrite) =>
            /\ \A xyz \in ExpectedInputs(call.args) :
                  LET p == ExpectedOutput(call.args, xyz)
                  IN  /\ Exists(fs, p)
                      /\ FileText(fs, p) = OldOutput => InSeq(SkipLine(p), stderr)
                      /\ FileText(fs, p) /= OldOutput =>
                            \E i \in 1..Len(stdout) :
                               /\ StartsWith(stdout[i], "[OK] Wrote ")
                               /\ SubSeq(stdout[i], Len(stdout[i]) - Len(p) + 1, Len(stdout[i])) = p
            /\ ExpectedInputs(call.args) /= {} =>
                  Len(stdout) + Len(stderr) = Cardinality(ExpectedInputs(call.args)))

\* a batch run without --overwrite skipped the first geometry file, whose
\* output existed, and went on to write the second
C16_Witness ==
    /\ MainReturned /\ ret = Some(0)
    /\ ~call.args.overwrite
    /\ call.args.folder = Some("geoms") /\ call.args.pattern = "*.xyz"
    /\ call.args.outdir = NONE
    /\ stderr = <<"[SKIP] geoms/mol.inp exists. Use --overwrite to replace.">>
    /\ stdout = <<"[OK] Wrote geoms/ts.inp">>
    /\ fs["geoms/mol.inp"] = OldOutput

\* the literal-block files the command line names, with --extra-block and
\* with --extra-block1..4
ReferencedBlocks(args) ==
    (IF args.extra_block /= NONE
     THEN {args.extra_block[1][i] : i \in 1..Len(args.extra_block[1])} ELSE {})
    \cup UNION { IF args.step[k].extra_block /= NONE
                 THEN {args.step[k].extra_block[1][i] :
                          i \in 1..Len(args.step[k].extra_block[1])}
                 ELSE {} : k \in StepIndices }

\* the named literal-block files that do not exist
MissingBlocks == {p \in ReferencedBlocks(call.args) : ~Exists(fs, p)}

\* main has started and reported no usage error, no skip and no warning
MainUnderWay == MainCalled /\ pc /= "ready" /\ stderr = <<>>

\* C17: a run of main whose command line names a literal-block file that
\* does not exist opens no output file and writes no document, and ends with
\* FileNotFoundError naming the missing path; it never ends as a success.
C17_MissingBlockRaises ==
    (MainUnderWay /\ MissingBlocks /= {}) =>
        /\ handle = NONE
        /\ stdout = <<>>
        /\ pc = "raised"
        /\ \E p \in MissingBlocks :
              exc = Some("FileNotFoundError: extra block file not found: " \o p)

(* Claims on the with block of the writers                                 *)

\* the number of f.write calls of the with block that is open
WritesOfBlock == handle[1].written + Len(handle[1].writes)

\* the output file of the open with block holds nothing yet, or the whole
\* document
NothingOrWhole ==
    \/ FileText(fs, handle[1].path) = ""
    \/ handle[1].buf = "" /\ handle[1].writes = <<>>

\* a writer called on its own created one file for each document it reported
OneFilePerCall ==
    (call.fn \in {"write_single_step", "write_compound", "write_neb_input"}
     /\ pc = "returned") => Cardinality(DOMAIN fs) = Len(stdout)

\* C18: every with block of a writer makes a single f.write call, so that
\* between two steps the output file holds nothing or the whole document and
\* never a part of it, and a writer that returned wrote exactly one file.
C18_SingleWrite ==
    /\ handle /= NONE => WritesOfBlock = 1 /\ NothingOrWhole
    /\ OneFilePerCall

\* the single-write half of the claim for the single-stage and NEB writers
SingleWriteElsewhere ==
    (handle /= NONE /\ ~StartsWith(handle[1].msg, "[OK] Wrote %compound"))
        => WritesOfBlock = 1 /\ NothingOrWhole

(* Claims on the shape of the document main writes                         *)

\* the indices for which the command line gives a numbered option
SuppliedIndices(args) == {k \in StepIndices : args.step[k] /= NoStepOptions}

\* the document of the with block that is open, written or still to write
OpenDocument ==
    Lines(FileText(fs, handle[1].path) \o handle[1].buf \o Join("", handle[1].writes))

\* the directive line of a stage shows the job given for its index
StageShowsJob(toks, st) ==
    /\ st.job = Some("optfreq") => InSeq("Opt", toks) /\ InSeq("Freq", toks)
    /\ st.job = Some("opt") => InSeq("Opt", toks) /\ ~InSeq("Freq", toks)
    /\ st.job = Some("sp") => ~InSeq("Opt", toks) /\ ~InSeq("Freq", toks)
    /\ st.moinp /= NONE => \E i \in 1..Len(toks) : IsMoread(toks[i])

\* C19: outside the NEB mode, the document main opens is a %compound
\* document exactly when the command line gives a numbered option for some
\* index 1..4; its stages are then the supplied indices, one stage each, in
\* increasing order, and with no numbered option it has no stage marker.
C19_CompoundIffNumbered ==
    (MainCalled /\ handle /= NONE /\ ~NebAsked(call.args)) =>
        LET doc == OpenDocument
            sup == SuppliedIndices(call.args)
            marks == IndexSeq(doc, {"New_step"})
        IN  /\ InSeq("%compound", doc) <=> sup /= {}
            /\ Len(marks) = Cardinality(sup)
            /\ \A k \in sup :
                  LET i == Cardinality({j \in sup : j <= k})
                  IN  i <= Len(marks) =>
                         StageShowsJob(LineTokens(StageBangLine(doc, i)), call.args.step[k])

(* Claims on the folder loop of main                                       *)

\* main is in or past its folder loop
InFolderRun ==
    /\ MainCalled
    /\ call.args.folder /= NONE
    /\ pc \in {"loop", "writing", "returned"}

\* C20: in a folder run the geometry files still to process are in sorted
\* order, two distinct matched files never have the same output path, and
\* no output path is written twice in one run, whatever the pattern and the
\* output directory.
C20_OwnOutputPath ==
    InFolderRun =>
        /\ \A i, j \in 1..Len(frame.files) :
              i < j => PartsLess(PathParts(frame.files[i]), PathParts(frame.files[j]))
        /\ \A x, y \in ExpectedInputs(call.args) :
              x /= y => ExpectedOutput(call.args, x) /= ExpectedOutput(call.args, y)
        /\ \A i, j \in 1..Len(stdout) : i < j => stdout[i] /= stdout[j]

\* the order of processing alone: it is the sorted order
FolderOrderSorted ==
    InFolderRun =>
        \A i, j \in 1..Len(frame.files) :
           i < j => PartsLess(PathParts(frame.files[i]), PathParts(frame.files[j]))

\* a folder run wrote the same output path twice
SamePathWrittenTwice ==
    /\ InFolderRun /\ pc = "returned"
    /\ \E i, j \in 1..Len(stdout) : i < j /\ stdout[i] = stdout[j]

(* Claims on the reading of a literal block                                *)

ReadReturned == call.fn = "_read_text_file" /\ pc = "returned"

RECURSIVE TrimNewlines(_)
\* the text without the newlines at its end, nothing else removed
TrimNewlines(s) ==
    IF s /= "" /\ SubSeq(s, Len(s), Len(s)) = "\n"
    THEN TrimNewlines(SubSeq(s, 1, Len(s) - 1))
    ELSE s

\* C21: the block _read_text_file returns is the text of the file without
\* its trailing newlines and with one newline appended, spaces and tabs at
\* the end of the last line kept; reading a block that is already of that
\* form returns it unchanged.
C21_OnlyNewlinesTrimmed ==
    ReadReturned =>
        /\ ret[1] = TrimNewlines(FileText(fs, call.path)) \o "\n"
        /\ TrimNewlines(ret[1]) \o "\n" = ret[1]
        /\ _read_text_file([q \in {"again"} |-> ret[1]], "again") = ret[1]

\* what does hold: the result ends with one newline that follows a
\* character that is no whitespace, and reading it again changes nothing
ReadNormalized ==
    ReadReturned =>
        /\ ret[1] = "\n" \/ (Len(ret[1]) >= 2
                             /\ SubSeq(ret[1], Len(ret[1]), Len(ret[1])) = "\n"
                             /\ ~IsSpace(SubSeq(ret[1], Len(ret[1]) - 1, Len(ret[1]) - 1)))
        /\ _read_text_file([q \in {"again"} |-> ret[1]], "again") = ret[1]

----------------------------------------------------------------------------
(* scripts/job_status.py: job ids, the merge of live and history rows      *)

\* c in s, for a character c
HasChar(s, c) == \E i \in 1..Len(s) : Char(s, i) = c

\* _base_jobid(jid): the step suffix (.batch, .extern, .0) goes
_base_jobid(jid) == IF jid /= "" THEN SplitOn(jid, ".")[1] ELSE jid

\* the keys of live_idx: the base ids of the live rows that have an id
LiveIndexKeys(live_rows) ==
    {_base_jobid(live_rows[i][1]) :
        i \in {j \in 1..Len(live_rows) : live_rows[j] /= <<>> /\ live_rows[j][1] /= ""}}

\* a slip: the history row is compared with the ids of the live rows as
\* they are, step suffix included
HistKept_ExactId(live_rows, r) ==
    /\ r /= <<>>
    /\ r[1] /= ""
    /\ ~HasChar(r[1], ".")
    /\ r[1] \notin {live_rows[i][1] :
                      i \in {j \in 1..Len(live_rows) : live_rows[j] /= <<>>}}

\* the three tests of the loop over hist_rows, none of which said continue
HistKept(live_rows, r) ==
    /\ r /= <<>>
    /\ r[1] /= ""
    /\ ~HasChar(r[1], ".")
    /\ _base_jobid(r[1]) \notin LiveIndexKeys(live_rows)

merge_rows_live_and_history(live_rows, hist_rows) ==
    live_rows \o SelectSeq(hist_rows, LAMBDA r : HistKept(live_rows, r))

(* scripts/job_status.py: the selection typed at the cancel menu           *)

IsDigit(c) == HasChar(Digits, c)

\* int(x) succeeds: an optional sign and one or more digits (the forms with
\* blanks or underscores that int takes as well are not modelled)
IsIntLiteral(x) ==
    LET body == IF x /= "" /\ Head(x) \in {"+", "-"} THEN Tail(x) ELSE x
    IN  body /= "" /\ \A i \in 1..Len(body) : IsDigit(Char(body, i))

DigitValue(c) == (CHOOSE i \in 1..Len(Digits) : Char(Digits, i) = c) - 1

RECURSIVE NatValue(_)
NatValue(x) ==
    IF x = "" THEN 0
    ELSE 10 * NatValue(SubSeq(x, 1, Len(x) - 1)) + DigitValue(Char(x, Len(x)))

\* int(x) for an x on which it succeeds
IntValue(x) ==
    IF Head(x) = "-" THEN 0 - NatValue(Tail(x))
    ELSE IF Head(x) = "+" THEN NatValue(Tail(x))
    ELSE NatValue(x)

\* a slip: the range is taken from a to b as typed, not from the smaller
\* to the larger
RangeIndices_AsTyped(a, b, n) == {i \in a..b : 1 <= i /\ i <= n}

\* for i in range(lo, hi+1): if 1 <= i <= n: sel.add(i)
RangeIndices(a, b, n) ==
    LET lo == IF a <= b THEN a ELSE b
        hi == IF a <= b THEN b ELSE a
    IN  {i \in lo..hi : 1 <= i /\ i <= n}

\* what one token adds to sel
TokenIndices(tok, n) ==
    IF tok = "" THEN {}
    ELSE IF HasChar(tok, "-")
    THEN LET a == SplitOn(tok, "-")[1]
             b == SubSeq(tok, Len(a) + 2, Len(tok))
         IN  IF IsIntLiteral(a) /\ IsIntLiteral(b)
             THEN RangeIndices(IntValue(a), IntValue(b), n)
             ELSE {}
    ELSE IF IsIntLiteral(tok) /\ 1 <= IntValue(tok) /\ IntValue(tok) <= n
    THEN {IntValue(tok)}
    ELSE {}

\* sorted(sel) for a set of integers
Sorted(S) ==
    [k \in 1..Cardinality(S) |-> CHOOSE x \in S : Cardinality({y \in S : y < x}) = k - 1]

_parse_selection(s, n) ==
    LET toks == SplitOn(ReplaceChar(s, " ", ""), ",")
    IN  Sorted(UNION {TokenIndices(toks[i], n) : i \in 1..Len(toks)})

(* scripts/job_status.py: colors, Slurm helpers                            *)

\* the escape character \x1b, which a string of this module cannot hold:
\* the form feed stands for it
ESC == "\f"

\* sub in s, for two strings
Contains(s, sub) == \E i \in 1..(Len(s) - Len(sub) + 1) : SubSeq(s, i, i + Len(sub) - 1) = sub

colorize(enabled, code, s) ==
    IF ~enabled \/ code = "" THEN s
    ELSE ESC \o "[" \o code \o "m" \o s \o ESC \o "[0m"

\* the key color_state looks up for a state, "" when it has no color
StateColor(state) ==
    LET u == Upper(state)
    IN  IF StartsWith(u, "CANCELLED") THEN "35"
        ELSE IF StartsWith(u, "RUNNING") THEN "32"
        ELSE IF StartsWith(u, "PENDING") THEN "33"
        ELSE IF StartsWith(u, "COMPLETED") THEN "36"
        ELSE IF Contains(u, "TIMEOUT") THEN "31"
        ELSE IF Contains(u, "OUT_OF_MEMORY") \/ Contains(u, "OOM") THEN "31"
        ELSE IF StartsWith(u, "FAILED") THEN "31"
        ELSE IF StartsWith(u, "SUSPENDED") THEN "35"
        ELSE IF StartsWith(u, "COMPLETING") THEN "36"
        ELSE IF StartsWith(u, "CONFIGURING") THEN "33"
        ELSE ""

color_state(use_color, state) == colorize(use_color, StateColor(state), state)

\* first_node(nodelist)
first_node(nodelist) ==
    LET val == Strip(nodelist)
    IN  IF nodelist = "" THEN ""
        ELSE IF val \in {"(null)", "None", "None assigned"} THEN ""
        ELSE IF ~HasChar(val, "[") \/ ~HasChar(val, "]") THEN Strip(SplitOn(val, ",")[1])
        ELSE LET prefix == SplitOn(val, "[")[1]
                 rest   == SubSeq(val, Len(prefix) + 2, Len(val))
                 closes == SelectSeq([i \in 1..Len(rest) |-> i], LAMBDA i : Char(rest, i) = "]")
                 inside == IF closes = <<>> THEN rest
                           ELSE SubSeq(rest, 1, closes[Len(closes)] - 1)
                 first  == SplitOn(inside, ",")[1]
             IN  IF HasChar(first, "-") THEN prefix \o SplitOn(first, "-")[1]
                 ELSE prefix \o first

\* the user whose jobs are listed
QueueUser(e, user_override) == IF user_override /= NONE THEN user_override[1] ELSE e.user

\* parse_squeue(user_override): the rows of squeue -h -u user -o fmt, each
\* line cut at every |, lines of fewer than 8 fields dropped
parse_squeue(e, user_override) ==
    LET out   == e.squeue[QueueUser(e, user_override)]
        lines == SplitOn(Strip(out), "\n")
        rows  == [i \in 1..Len(lines) |-> SplitOn(lines[i], "|")]
    IN  IF out = "" THEN <<>> ELSE SelectSeq(rows, LAMBDA r : Len(r) >= 8)

(* scripts/job_status.py: cancel_menu                                      *)

\* a slip: every state the menu looks at is offered, COMPLETING included
Cancellable_WithCompleting(r) ==
    LET st == Upper(r[3])
    IN  StartsWith(st, "RUNN") \/ StartsWith(st, "PEND") \/ StartsWith(st, "CONFIG")
        \/ StartsWith(st, "COMPLET")

\* the test of the loop that fills cancellable
Cancellable(r) ==
    LET st == Upper(r[3])
    IN  /\ StartsWith(st, "RUNN") \/ StartsWith(st, "PEND") \/ StartsWith(st, "CONFIG")
           \/ StartsWith(st, "COMPLET")
        /\ ~StartsWith(st, "COMPLET")

MenuLine(use_color, idx, r) ==
    LET node == first_node(r[8])
    IN  colorize(use_color, "33",
           "[" \o Str(idx) \o "] job=" \o r[1] \o "  state=" \o r[3] \o "  name=" \o r[2]
           \o "  node=" \o (IF node /= "" THEN node ELSE "-") \o "  elapsed=" \o r[4]
           \o "  cpus=" \o r[5] \o "  mem=" \o r[6] \o "  part=" \o r[7])

SummaryLine(use_color, r) ==
    colorize(use_color, "31", "  - " \o r[1] \o "  (" \o r[3] \o ")  " \o r[2])

\* cancel_menu up to its first input(): what it prints, and its return
\* value, its exception, or the jobs it offers
CancelMenuEntry(e, use_color) ==
    LET rows == parse_squeue(e, NONE)
        cancellable == SelectSeq(rows, Cancellable)
        quit(code, line) == [rc |-> Some(code), exc |-> NONE, out |-> <<line>>,
                             cancellable |-> <<>>]
    IN  IF ~e.have_scancel THEN quit(2, "[ERROR] scancel not found in PATH.")
        ELSE IF rows = <<>> THEN quit(0, "[INFO] No jobs found for your user.")
        ELSE IF \E i \in 1..Len(rows) : Len(rows[i]) /= 8
        THEN [rc |-> NONE, exc |-> Some("ValueError: too many values to unpack (expected 8)"),
              out |-> <<>>, cancellable |-> <<>>]
        ELSE IF cancellable = <<>>
        THEN quit(0, "[INFO] No RUNNING/PENDING/CONFIGURING jobs to cancel.")
        ELSE [rc |-> NONE, exc |-> NONE,
              out |-> <<colorize(use_color, "1;36",
                                 "Select job(s) to cancel (comma/range, e.g., 1,3-5)")>>
                      \o [i \in 1..Len(cancellable) |-> MenuLine(use_color, i, cancellable[i])]
                      \o <<colorize(use_color, "1;35", "Enter selection: ")>>,
              cancellable |-> cancellable]

(* scripts/job_status.py: the job table                                    *)

\* the length of the escape sequence \x1b[...m at the start of s, 0 when s
\* does not start with one
AnsiLen(s) ==
    IF Len(s) < 3 \/ SubSeq(s, 1, 2) /= ESC \o "[" THEN 0
    ELSE LET stops == SelectSeq([k \in 1..(Len(s) - 2) |-> k + 2],
                                LAMBDA i : ~(IsDigit(Char(s, i)) \/ Char(s, i) = ";"))
         IN  IF stops /= <<>> /\ Char(s, stops[1]) = "m" THEN stops[1] ELSE 0

RECURSIVE StripAnsi(_)
\* ANSI_RE.sub("", s)
StripAnsi(s) ==
    IF s = "" THEN ""
    ELSE IF AnsiLen(s) > 0 THEN StripAnsi(SubSeq(s, AnsiLen(s) + 1, Len(s)))
    ELSE Head(s) \o StripAnsi(Tail(s))

visible_len(s) == Len(StripAnsi(s))

RECURSIVE Spaces(_)
\* " " * n
Spaces(n) == IF n <= 0 THEN "" ELSE " " \o Spaces(n - 1)

TableHeaders == <<"JOBID", "NAME", "STATE", "ELAPSED", "CPUS", "MEM", "PARTITION", "NODE">>

MaxOf(S) == CHOOSE x \in S : \A y \in S : y <= x

\* colw of print_table
ColumnWidths(rows) ==
    [i \in 1..Len(TableHeaders) |->
        MaxOf({visible_len(TableHeaders[i])}
              \cup {visible_len(rows[k][i]) : k \in {j \in 1..Len(rows) : i <= Len(rows[j])}})]

\* one printed line of the table: the cells padded to colw, two blanks
\* between them
TableLine(cells, colw) ==
    Join("  ", [i \in 1..Len(cells) |->
                   cells[i] \o Spaces(colw[i] - visible_len(cells[i]))])

\* the cells of a row as print_table shows them
RowCells(r, use_color) ==
    LET n == IF Len(r) < Len(TableHeaders) THEN Len(r) ELSE Len(TableHeaders)
    IN  [i \in 1..n |->
            IF i = 3 THEN color_state(use_color, r[3])
            ELSE IF i = 8 /\ r[8] \notin {"-", ""} THEN colorize(use_color, "36", r[8])
            ELSE r[i]]

\* print_table(rows, use_color): the lines it prints
print_table(rows, use_color) ==
    LET colw == ColumnWidths(rows)
    IN  <<TableLine([i \in 1..Len(TableHeaders) |->
                        colorize(use_color, "1;36", TableHeaders[i])], colw)>>
        \o [k \in 1..Len(rows) |-> TableLine(RowCells(rows[k], use_color), colw)]

\* include_history(hours, user_override): the rows made of the sacct lines
\* of the user, step lines dropped
include_history(e, user_override) ==
    LET out   == e.sacct[QueueUser(e, user_override)]
        lines == SplitOn(Strip(out), "\n")
        parts == SelectSeq([i \in 1..Len(lines) |-> SplitOn(lines[i], "|")],
                           LAMBDA q : Len(q) >= 6 /\ ~HasChar(q[1], "."))
    IN  IF ~e.have_sacct \/ out = "" THEN <<>>
        ELSE [i \in 1..Len(parts) |->
                 <<parts[i][1], parts[i][2], parts[i][3], parts[i][4], parts[i][6],
                   parts[i][5], "-", "-">>]

\* render_once(): the lines it prints
render_once(e, target_user, hist_rows, use_color) ==
    LET rows == merge_rows_live_and_history(parse_squeue(e, target_user), hist_rows)
    IN  IF rows /= <<>> THEN print_table(rows, use_color)
        ELSE <<"[INFO] No jobs found for user: " \o QueueUser(e, target_user) \o ".">>

(* scripts/job_status.py: the inputs of the model                          *)

\* the characters of the selections typed at the menu
SelectionAlphabet == {"0", "1", "2", "3", "-", ",", " ", "x"}

\* the longest selection made of every combination of those characters
MaxSelectionLen == 3

RECURSIVE StringsOfLen(_)
StringsOfLen(n) ==
    IF n = 0 THEN {""}
    ELSE {t \o c : t \in StringsOfLen(n - 1), c \in SelectionAlphabet}

\* every short selection, and longer ones of the usual forms
SelectionStrings ==
    UNION {StringsOfLen(n) : n \in 0..MaxSelectionLen}
    \cup {"1,3-5,7", "10-12", "12 - 9", "+2,+4", "1--3", "-1-3", "2-+3", "007", "1,,2,"}

SelectionCalls == [fn : {"_parse_selection"}, s : SelectionStrings, n : {0, 2, 3, 12}]

\* a row of the table with the job id jid
Row(jid, state) == <<jid, "opt_" \o jid, state, "1:00", "8", "4000M", "normal", "c1028">>

LiveRowSet ==
    {<<>>, Row("", "RUNNING"), Row("7", "RUNNING"), Row("7.batch", "RUNNING"),
     Row("8_1", "PENDING"), Row("9", "COMPLETING")}

HistRowSet ==
    {<<>>, Row("", "FAILED"), Row("7", "COMPLETED"), Row("7.batch", "COMPLETED"),
     Row("8_1", "FAILED"), Row("8", "FAILED"), Row("10", "TIMEOUT")}

\* the longest list of rows of a call of merge_rows_live_and_history
MaxRows == 2

RowLists(S) == UNION {[1..n -> S] : n \in 0..MaxRows}

MergeCalls ==
    [fn : {"merge_rows_live_and_history"}, live_rows : RowLists(LiveRowSet),
     hist_rows : RowLists(HistRowSet)]

\* what squeue prints for a user: nothing; jobs in every state of interest;
\* only jobs that are over or held; a job whose name holds the separator
SqueueOutputs ==
    {"",
     "101|opt_a|RUNNING|1:00|8|4000M|normal|c1028\n102|opt_b|PENDING|0:00|8|4000M|normal|(Priority)\n103|opt_c|COMPLETING|9:00|8|4000M|normal|c[1030-1031]\n104|opt_d|CONFIGURING|0:00|16|2G|debug|c1040\n",
     "105|opt_e|COMPLETED|9:00|8|4000M|normal|c1028\n106|opt_f|SUSPENDED|2:00|8|4000M|normal|c1029\n",
     "107|a|b|RUNNING|1:00|8|4000M|normal|c1028\n"}

\* what sacct prints for the user alice
SacctOutput ==
    "101|opt_a|RUNNING|1:00|4000M|8\n101.batch|batch|RUNNING|1:00||8\n099|old|FAILED|3:00|2G|4\n"

\* the machine job_status.py runs on: what squeue prints for alice, whether
\* scancel is installed, whether stdout and stdin are terminals, whether
\* termios can be imported
StatusEnv(q, sc, so, si, tm) ==
    [user |-> "alice",
     squeue |-> [u \in {"alice", "bob"} |->
                   IF u = "alice" THEN q
                   ELSE "201|theirs|RUNNING|5:00|32|8G|normal|c2001\n"],
     sacct |-> [u \in {"alice", "bob"} |-> IF u = "alice" THEN SacctOutput ELSE ""],
     have_scancel |-> sc, have_sacct |-> TRUE,
     stdout_tty |-> so, stdin_tty |-> si, has_termios |-> tm,
     term |-> "cooked", clock |-> 0, ran |-> <<>>, typed |-> <<>>, keys |-> <<>>]

CancelEnvs == {StatusEnv(q, sc, so, TRUE, TRUE) : q \in SqueueOutputs, sc \in BOOLEAN, so \in BOOLEAN}

\* the attributes of the terminal when the script starts: as the shell
\* leaves it, or as a program that set it raw left it
TerminalModes == {"cooked", "raw"}

WatchEnvs ==
    {[StatusEnv(q, TRUE, so, si, tm) EXCEPT !.term = t] :
        q \in {"", "101|opt_a|RUNNING|1:00|8|4000M|normal|c1028\n"},
        so \in BOOLEAN, si \in BOOLEAN, tm \in BOOLEAN, t \in TerminalModes}

OnceEnvs == {StatusEnv(q, TRUE, so, TRUE, TRUE) : q \in SqueueOutputs, so \in BOOLEAN}

StatusArgsDefault ==
    [cancel_menu |-> FALSE, watch |-> NONE, user |-> NONE, history |-> NONE,
     color |-> FALSE, no_color |-> FALSE]

\* the command lines: --cancel-menu with and without --user; --watch with
\* no N (const 3) and with N; a plain run with and without --history
CancelArgs ==
    {[StatusArgsDefault EXCEPT !.cancel_menu = TRUE, !.user = u] : u \in {NONE, Some("bob")}}

WatchArgs == {[StatusArgsDefault EXCEPT !.watch = Some(n)] : n \in {3, 1, 0, -1}}

OnceArgs ==
    {[StatusArgsDefault EXCEPT !.history = h, !.user = u, !.no_color = nc, !.color = c] :
        h \in {NONE, Some("24h"), Some("1d")}, u \in {NONE, Some("bob")},
        nc \in BOOLEAN, c \in BOOLEAN}


\* what the user types at the two prompts of the cancel menu; NONE is the
\* end of the input
SelectionAnswers == {Some(""), Some("1"), Some(" 2 "), Some("1,3"), Some("3-1"), Some("x"),
                     Some("4"), Some("2-9"), NONE}

ConfirmAnswers == {Some("yes"), Some("YES"), Some(" Yes "), Some("y"), Some("no"),
                   Some(""), Some("yes!"), NONE}

\* the keys the user presses while the table is watched
Keys == {"q", "Q", "c", "C", "x", "\n"}

\* the most renders of one watch run, and the most keys pressed during it
MaxRenders == 3

MaxKeys == 2

----------------------------------------------------------------------------
(* The state machine of scripts/job_status.py: one call of one function    *)

\* the local variables of main and cancel_menu
StatusLocals ==
    [use_color |-> FALSE, cancellable |-> <<>>, chosen |-> <<>>, errs |-> 0,
     hist_rows |-> <<>>, interactive |-> FALSE, fd |-> NONE, old_term |-> NONE,
     end_by |-> 0, renders |-> 0]

StatusInit ==
    /\ JOB_MAP = JOB_MAP_Literal
    /\ \/ call \in SelectionCalls /\ env = NONE
       \/ call \in MergeCalls /\ env = NONE
       \/ call \in [fn : {"main"}, args : CancelArgs] /\ env \in CancelEnvs
       \/ call \in [fn : {"main"}, args : WatchArgs] /\ env \in WatchEnvs
       \/ call \in [fn : {"main"}, args : OnceArgs] /\ env \in OnceEnvs
    /\ pc = "ready"
    /\ ret = NONE
    /\ exc = NONE
    /\ fs = <<>>
    /\ stdout = <<>>
    /\ stderr = <<>>
    /\ todo = <<>>
    /\ handle = NONE
    /\ frame = StatusLocals

Call_parse_selection ==
    /\ pc = "ready"
    /\ call.fn = "_parse_selection"
    /\ ret' = Some(_parse_selection(call.s, call.n))
    /\ pc' = "returned"
    /\ UNCHANGED <<env, JOB_MAP, call, exc, fs, stdout, stderr, todo, handle, frame>>

Call_merge_rows_live_and_history ==
    /\ pc = "ready"
    /\ call.fn = "merge_rows_live_and_history"
    /\ ret' = Some(merge_rows_live_and_history(call.live_rows, call.hist_rows))
    /\ pc' = "returned"
    /\ UNCHANGED <<env, JOB_MAP, call, exc, fs, stdout, stderr, todo, handle, frame>>

\* use_color of main; FORCE_COLOR and CLICOLOR_FORCE are not set
UseColor(e, args) == ~args.no_color /\ (e.stdout_tty \/ args.color)

\* int(harg[:-1] or "0") or int(harg) succeeds
HistoryParses(h) ==
    LET harg == Lower(Strip(h))
    IN  IF harg /= "" /\ Char(harg, Len(harg)) = "h"
        THEN Len(harg) = 1 \/ IsIntLiteral(SubSeq(harg, 1, Len(harg) - 1))
        ELSE IsIntLiteral(harg)

\* a slip: the finally clause is missing and the terminal stays as it is
WatchFinally_NoRestore(e, loc) == e

\* the finally clause of the watch loop: the terminal as it leaves it
WatchFinally(e, loc) ==
    IF loc.interactive /\ loc.fd /= NONE /\ loc.old_term /= NONE
    THEN [e EXCEPT !.term = loc.old_term[1]]
    ELSE e

\* main of job_status.py up to the first input() of cancel_menu, the first
\* render of the watch loop, or its return; the branches --nodeinfo,
\* --ssh-menu and --job are not part of the model
job_status_main ==
    /\ pc = "ready"
    /\ call.fn = "main"
    /\ call.args \in CancelArgs \cup WatchArgs \cup OnceArgs
    /\ LET args == call.args
           use_color == UseColor(env, args)
           loc == [StatusLocals EXCEPT !.use_color = use_color]
       IN  IF args.cancel_menu
           THEN LET r == CancelMenuEntry(env, use_color)
                IN  /\ stdout' = stdout \o r.out
                    /\ ret' = r.rc
                    /\ exc' = r.exc
                    /\ frame' = [loc EXCEPT !.cancellable = r.cancellable]
                    /\ pc' = IF r.exc /= NONE THEN "raised"
                             ELSE IF r.rc /= NONE THEN "returned" ELSE "select"
                    /\ env' = env
           ELSE IF args.history /= NONE /\ ~HistoryParses(args.history[1])
           THEN /\ exc' = Some("ValueError: invalid literal for int() with base 10")
                /\ pc' = "raised"
                /\ frame' = loc
                /\ UNCHANGED <<stdout, ret, env>>
           ELSE LET hist == IF args.history /= NONE
                            THEN include_history(env, args.user) ELSE <<>>
                    inter == env.stdin_tty /\ env.has_termios
                IN  IF args.watch /= NONE /\ args.watch[1] /= 0
                    THEN /\ frame' = [loc EXCEPT !.hist_rows = hist,
                                                 !.interactive = inter,
                                                 !.fd = IF inter THEN Some(0) ELSE NONE,
                                                 !.old_term = IF inter THEN Some(env.term)
                                                              ELSE NONE]
                         /\ env' = IF inter THEN [env EXCEPT !.term = "cbreak"] ELSE env
                         /\ pc' = "render"
                         /\ UNCHANGED <<stdout, ret, exc>>
                    ELSE /\ stdout' = stdout \o render_once(env, args.user, hist, use_color)
                         /\ ret' = Some(0)
                         /\ pc' = "returned"
                         /\ frame' = [loc EXCEPT !.hist_rows = hist]
                         /\ UNCHANGED <<exc, env>>
    /\ UNCHANGED <<JOB_MAP, call, fs, stderr, todo, handle>>

\* input() met the end of the input
EndOfInput == "EOFError: EOF when reading a line"

\* cancel_menu from its first input() to its second
cancel_menu_select ==
    /\ pc = "select"
    /\ \E a \in SelectionAnswers :
          /\ env' = [env EXCEPT !.typed = Append(@, a)]
          /\ IF a = NONE
             THEN /\ exc' = Some(EndOfInput)
                  /\ pc' = "raised"
                  /\ UNCHANGED <<stdout, ret, frame>>
             ELSE LET indices == _parse_selection(Strip(a[1]), Len(frame.cancellable))
                      chosen == [k \in 1..Len(indices) |-> frame.cancellable[indices[k]]]
                  IN  IF indices = <<>>
                      THEN /\ stdout' = Append(stdout, "[INFO] Nothing selected; aborting.")
                           /\ ret' = Some(1)
                           /\ pc' = "returned"
                           /\ UNCHANGED <<exc, frame>>
                      ELSE /\ stdout' =
                                 stdout
                                 \o <<colorize(frame.use_color, "1;36",
                                        "\nYou are about to CANCEL the following jobs:")>>
                                 \o [k \in 1..Len(chosen) |->
                                        SummaryLine(frame.use_color, chosen[k])]
                                 \o <<colorize(frame.use_color, "1;31",
                                        "Type 'yes' to confirm cancellation: ")>>
                           /\ frame' = [frame EXCEPT !.chosen = chosen]
                           /\ pc' = "confirm"
                           /\ UNCHANGED <<ret, exc>>
    /\ UNCHANGED <<JOB_MAP, call, fs, stderr, todo, handle>>

\* a slip: any answer that starts with y confirms
Confirmed_AnyY(answer) == StartsWith(Lower(Strip(answer)), "y")

\* sure == "yes" for sure = input(...).strip().lower()
Confirmed(answer) == Lower(Strip(answer)) = "yes"

\* cancel_menu from its second input() to the loop over chosen
cancel_menu_confirm ==
    /\ pc = "confirm"
    /\ \E a \in ConfirmAnswers :
          /\ env' = [env EXCEPT !.typed = Append(@, a)]
          /\ IF a = NONE
             THEN /\ exc' = Some(EndOfInput)
                  /\ pc' = "raised"
                  /\ UNCHANGED <<stdout, ret, frame>>
             ELSE IF ~Confirmed(a[1])
             THEN /\ stdout' = Append(stdout,
                                  "[INFO] Confirmation not given. No jobs were cancelled.")
                  /\ ret' = Some(1)
                  /\ pc' = "returned"
                  /\ UNCHANGED <<exc, frame>>
             ELSE /\ frame' = [frame EXCEPT !.errs = 0]
                  /\ pc' = "scancel"
                  /\ UNCHANGED <<stdout, ret, exc>>
    /\ UNCHANGED <<JOB_MAP, call, fs, stderr, todo, handle>>

\* one turn of the loop over chosen: scancel is run for the job and ends
\* with 0, with another code, or cannot be started
cancel_menu_scancel ==
    /\ pc = "scancel"
    /\ frame.chosen /= <<>>
    /\ LET jobid == Head(frame.chosen)[1]
       IN  /\ env' = [env EXCEPT !.ran = Append(@, <<"scancel", jobid>>)]
           /\ \E outcome \in {"0", "1", "exc"} :
                 /\ stdout' = Append(stdout,
                       IF outcome = "0"
                       THEN colorize(frame.use_color, "32", "[OK] scancel " \o jobid)
                       ELSE IF outcome = "1"
                       THEN colorize(frame.use_color, "31",
                                     "[ERR] scancel " \o jobid \o " -> exit 1")  \* the arrow is U+2192
                       ELSE colorize(frame.use_color, "31",
                                     "[EXC] scancel " \o jobid \o ": [Errno 2]"))
                 /\ frame' = [frame EXCEPT !.chosen = Tail(@),
                                           !.errs = IF outcome = "0" THEN @ ELSE @ + 1]
    /\ UNCHANGED <<JOB_MAP, call, pc, ret, exc, fs, stderr, todo, handle>>

\* the end of cancel_menu after the loop
cancel_menu_return ==
    /\ pc = "scancel"
    /\ frame.chosen = <<>>
    /\ stdout' = Append(stdout,
          IF frame.errs = 0
          THEN colorize(frame.use_color, "1;32",
                        "All selected jobs were sent a cancel request.")
          ELSE colorize(frame.use_color, "1;33",
                        "Cancel requests issued with " \o Str(frame.errs)
                        \o " error(s). Some jobs may remain."))
    /\ ret' = Some(0)
    /\ pc' = "returned"
    /\ UNCHANGED <<env, JOB_MAP, call, exc, fs, stderr, todo, handle, frame>>

\* the seconds of an interval in steps of the 0.2 s the loop waits at most
TicksPerSecond == 5

\* datetime.now().strftime("%Y-%m-%d %H:%M:%S") at a reading of the clock
TimeStamp(clock) ==
    LET sec == clock \div TicksPerSecond
    IN  "2025-01-01 00:00:" \o (IF sec < 10 THEN "0" ELSE "") \o Str(sec)

WatchHint == "[watch] press 'q' to quit, 'c' to toggle color"

\* the except KeyboardInterrupt clause and the finally clause, then return 0
WatchExit ==
    /\ stdout' = Append(stdout, "\n[watch] exited.")
    /\ ret' = Some(0)
    /\ pc' = "returned"
    /\ UNCHANGED <<exc, frame>>

\* the top of the watch loop: the screen is cleared, the time and the hint
\* and the table are printed, the interval starts; or a print fails and its
\* exception leaves main through the finally clause
watch_render ==
    /\ pc = "render"
    /\ frame.renders < MaxRenders
    /\ \/ /\ env' = [env EXCEPT !.ran = Append(@, <<"clear">>)]
          /\ stdout' = stdout
                \o <<colorize(frame.use_color, "1;36", TimeStamp(env.clock)) \o "  "
                     \o colorize(frame.use_color, "2", WatchHint)>>
                \o render_once(env, call.args.user, frame.hist_rows, frame.use_color)
          /\ frame' = [frame EXCEPT !.end_by = env.clock + TicksPerSecond * call.args.watch[1],
                                    !.renders = @ + 1]
          /\ pc' = "wait"
          /\ UNCHANGED <<ret, exc>>
       \/ /\ env' = WatchFinally([env EXCEPT !.ran = Append(@, <<"clear">>)], frame)
          /\ exc' = Some("BrokenPipeError: [Errno 32] Broken pipe")
          /\ pc' = "raised"
          /\ UNCHANGED <<stdout, ret, frame>>
    /\ UNCHANGED <<JOB_MAP, call, fs, stderr, todo, handle>>

\* a slip: only the small letter quits
QuitKeys_SmallOnly == {"q"}

\* if ch in ("q", "Q"): raise KeyboardInterrupt
QuitKeys == {"q", "Q"}

\* if ch in ("c", "C"): use_color = not use_color; break
ToggleKeys == {"c", "C"}

\* one turn of the inner loop: the interval is over; or select() returns a
\* key, which quits, toggles the color or is dropped; or 0.2 s pass
watch_wait ==
    /\ pc = "wait"
    /\ IF frame.end_by - env.clock <= 0
       THEN /\ pc' = "render"
            /\ UNCHANGED <<env, stdout, ret, exc, frame>>
       ELSE IF frame.interactive /\ frame.fd /= NONE
       THEN \/ /\ env' = [env EXCEPT !.clock = @ + 1]
               /\ UNCHANGED <<pc, stdout, ret, exc, frame>>
            \/ /\ Len(env.keys) < MaxKeys
               /\ \E ch \in Keys :
                     IF ch \in QuitKeys
                     THEN /\ env' = WatchFinally([env EXCEPT !.keys = Append(@, ch)], frame)
                          /\ WatchExit
                     ELSE IF ch \in ToggleKeys
                     THEN /\ env' = [env EXCEPT !.keys = Append(@, ch)]
                          /\ frame' = [frame EXCEPT !.use_color = ~@]
                          /\ pc' = "render"
                          /\ UNCHANGED <<stdout, ret, exc>>
                     ELSE /\ env' = [env EXCEPT !.keys = Append(@, ch)]
                          /\ UNCHANGED <<pc, stdout, ret, exc, frame>>
       ELSE /\ env' = [env EXCEPT !.clock = @ + 1]
            /\ UNCHANGED <<pc, stdout, ret, exc, frame>>
    /\ UNCHANGED <<JOB_MAP, call, fs, stderr, todo, handle>>

\* Ctrl-C during the watch loop: KeyboardInterrupt is raised in the try block
watch_interrupt ==
    /\ pc \in {"render", "wait"}
    /\ env' = WatchFinally([env EXCEPT !.keys = Append(@, "^C")], frame)
    /\ WatchExit
    /\ UNCHANGED <<JOB_MAP, call, fs, stderr, todo, handle>>

StatusNext ==
    \/ Call_parse_selection
    \/ Call_merge_rows_live_and_history
    \/ job_status_main
    \/ cancel_menu_select
    \/ cancel_menu_confirm
    \/ cancel_menu_scancel
    \/ cancel_menu_return
    \/ watch_render
    \/ watch_wait
    \/ watch_interrupt

StatusSpec == StatusInit /\ [][StatusNext]_vars

----------------------------------------------------------------------------
(* orca_submit.py: the resources an input asks for, the batch script       *)

RECURSIVE SkipSpaces(_, _)
\* \s*: the first index from i on that holds no blank
SkipSpaces(s, i) == IF i <= Len(s) /\ IsSpace(Char(s, i)) THEN SkipSpaces(s, i + 1) ELSE i

RECURSIVE SkipDigits(_, _)
\* \d+: the first index from i on that holds no digit
SkipDigits(s, i) == IF i <= Len(s) /\ IsDigit(Char(s, i)) THEN SkipDigits(s, i + 1) ELSE i

\* pal\s*(\d+) matches at index i of l
PalMatchAt(l, i) ==
    /\ SubSeq(l, i, i + 2) = "pal"
    /\ SkipDigits(l, SkipSpaces(l, i + 3)) > SkipSpaces(l, i + 3)

\* re.search(r'pal\s*(\d+)', l): group 1 of the leftmost match
SearchPal(l) ==
    LET starts == {i \in 1..(Len(l) - 2) : PalMatchAt(l, i)}
    IN  IF starts = {} THEN NONE
        ELSE LET i == CHOOSE k \in starts : \A j \in starts : k <= j
                 d == SkipSpaces(l, i + 3)
             IN  Some(SubSeq(l, d, SkipDigits(l, d) - 1))

\* a slip: the number is looked for under index 0, where the keyword is
SecondWordOrFirst(l, old) ==
    LET words == SplitWs(l)
    IN  IF Len(words) >= 1 /\ IsIntLiteral(words[1]) THEN IntValue(words[1]) ELSE old

\* int(l.split()[1]) where it succeeds, old where IndexError or ValueError
\* is caught
SecondWordOr(l, old) ==
    LET words == SplitWs(l)
    IN  IF Len(words) >= 2 /\ IsIntLiteral(words[2]) THEN IntValue(words[2]) ELSE old

\* one turn of the loop of extract_resources over the lines
ResourceLine(st, line) ==
    LET l  == Lower(Strip(line))
        s1 == IF ~st.inside_pal THEN st
              ELSE IF StartsWith(l, "end") THEN [st EXCEPT !.inside_pal = FALSE]
              ELSE IF Contains(l, "nprocs")
              THEN [st EXCEPT !.nprocs = SecondWordOr(l, st.nprocs)]
              ELSE st
        s2 == IF StartsWith(l, "%maxcore")
              THEN [s1 EXCEPT !.maxcore = SecondWordOr(l, s1.maxcore)]
              ELSE s1
        m  == SearchPal(l)
    IN  IF StartsWith(l, "%pal") THEN [st EXCEPT !.inside_pal = TRUE]
        ELSE IF StartsWith(l, "!") /\ Contains(l, "pal") /\ m /= NONE
        THEN [s2 EXCEPT !.nprocs = NatValue(m[1])]
        ELSE s2

RECURSIVE ResourceLines(_, _, _)
\* the lines from number k on, st being the variables before line k (the
\* test of next has one value; it makes next be computed line by line)
ResourceLines(st, lines, k) ==
    IF k > Len(lines) THEN st
    ELSE LET next == ResourceLine(st, lines[k])
         IN  IF next.inside_pal \in BOOLEAN THEN ResourceLines(next, lines, k + 1) ELSE st

\* extract_resources(inp_file) for the text of the file: nprocs and maxcore
extract_resources(text) ==
    LET st == ResourceLines([nprocs |-> 32, maxcore |-> 4000, inside_pal |-> FALSE],
                            Lines(text), 1)
    IN  <<st.nprocs, st.maxcore>>

\* inp_path.with_suffix(".slurm")
SlurmPath(inp_path) == PathJoin(PathParent(inp_path), PathStem(inp_path) \o ".slurm")

\* TEMPLATE.format(...): the text of the batch script
TEMPLATE(job_name, ntasks, time, partition, nodelist, exclusive, memory, input_name, workdir_block, cleanup_block, staging_block, cd_block, copyback_block) ==
    ("#!/bin/bash\n" \o
     "#SBATCH --job-name=" \o
     job_name \o
     "\n" \o
     "#SBATCH --nodes=1\n" \o
     "#SBATCH --ntasks-per-node=" \o
     ntasks \o
     "\n") \o
    ("#SBATCH --time=" \o
     time \o
     "\n" \o
     "#SBATCH --partition=" \o
     partition \o
     "\n" \o
     nodelist \o
     exclusive) \o
    ("#SBATCH --mem=" \o
     memory \o
     "\n" \o
     "#SBATCH --output=orca_output.log\n" \o
     "#SBATCH --error=orca_error.log\n" \o
     "\n" \o
     "set -euo pipefail\n" \o
     "\n") \o
    ("############################\n" \o
     "# Environment / modules\n" \o
     "############################\n" \o
     "module purge\n" \o
     "module load GCC/12.3.0 UCX/1.14.1-GCCcore-12.3.0 PMIx/4.2.4-GCCcore-12.3.0 libevent/2.1.12-GCCcore-12.3.0 hwloc/2.9.1-GCCcore-12.3.0\n" \o
     "\n" \o
     "export PATH=/home/nvt/Software/openmpi-4.1.8-noAVX/openmpi-4.1.8/install/bin:$PATH\n" \o
     "export LD_LIBRARY_PATH=/home/nvt/Software/openmpi-4.1.8-noAVX/openmpi-4.1.8/install/lib:$LD_LIBRARY_PATH\n") \o
    ("export ORCA_PATH=/home/nvt/Software/ORCA_6_1_no_AVX2\n" \o
     "\n" \o
     "# (Optional) OpenMPI env\n" \o
     "export OMPI_MCA_btl=self,tcp\n" \o
     "export OMPI_MCA_rmaps_base_oversubscribe=1\n" \o
     "export OMPI_MCA_plm_rsh_agent=ssh\n" \o
     "\n" \o
     "############################\n") \o
    ("# I/O config\n" \o
     "############################\n" \o
     "INPUT=\"" \o
     input_name \o
     "\"\n" \o
     "\n" \o
     workdir_block \o
     "\n") \o
    ("\n" \o
     "SUBMIT_DIR=\"$PWD\"\n" \o
     "RESULTDIR=\"$PWD\"\n" \o
     "\n" \o
     "echo \"[INFO] submit dir:  $SUBMIT_DIR\"\n" \o
     "echo \"[INFO] work dir:    $WORKDIR\"\n" \o
     "echo \"[INFO] result dir:  $RESULTDIR\"\n" \o
     "\n") \o
    ("# Clean up local workdir on any exit\n" \o
     "cleanup() {" \o
     "\n" \o
     "  " \o
     cleanup_block \o
     "\n" \o
     "}" \o
     "\n") \o
    ("trap cleanup EXIT\n" \o
     "\n" \o
     "############################\n" \o
     "# Stage inputs\n" \o
     "############################\n" \o
     staging_block \o
     "\n" \o
     "\n") \o
    ("scontrol show hostnames \"$SLURM_JOB_NODELIST\" > \"$WORKDIR/$(basename $INPUT .inp).nodes\"\n" \o
     "\n" \o
     "############################\n" \o
     "# Run ORCA\n" \o
     "############################\n" \o
     cd_block \o
     "\n" \o
     "\n") \o
    ("echo \"[INFO] launching ORCA on $(hostname) at $(date)\"\n" \o
     "\"$ORCA_PATH/orca\" \"$INPUT\" > \"${" \o
     "INPUT%.inp}" \o
     ".out\"\n" \o
     "\n" \o
     "############################\n" \o
     "# Copy results back\n" \o
     "############################\n") \o
    (copyback_block \o
     "\n" \o
     "\n" \o
     "echo \"[INFO] done at $(date)\"\n")

\* the blocks create_slurm picks for --workdir and --clean
SlurmBlocks(workdir, clean) ==
    IF workdir = "lscratch"
    THEN [
          workdir_block |->
              "# Preferred fast local scratch; fall back to /tmp if needed\n" \o
              "if [[ -d /lscratch ]]; then\n" \o
              "  WORKDIR=\"/lscratch/${SLURM_JOB_ID}\"\n" \o
              "else\n" \o
              "  echo \"[WARN] /lscratch not found on $(hostname); using /tmp\"\n" \o
              "  WORKDIR=\"/tmp/${SLURM_JOB_ID}\"\n" \o
              "fi\n",
          staging_block |->
              "mkdir -p \"$WORKDIR\"\n" \o
              "\n" \o
              "shopt -s nullglob\n" \o
              "TO_COPY=( *.inp *.gbw *.xyz *.hess *.engrad *.molden.input *.molden *.wfn *.num *.mkl *.trj *.swag *.tmp )\n" \o
              "TO_COPY+=( \"$INPUT\" )\n" \o
              "\n" \o
              "echo \"[INFO] staging inputs to $WORKDIR\"\n" \o
              "for f in \"${TO_COPY[@]}\"; do\n" \o
              "  [[ -e \"$f\" ]] && rsync -a \"$f\" \"$WORKDIR/\"\n" \o
              "done\n",
          cleanup_block |->
              IF clean = "standart" THEN
                  "set +e\n" \o
                  "if [[ -d \"$WORKDIR\" ]]; then\n" \o
                  "  echo \"[INFO] cleaning up $WORKDIR\"\n" \o
                  "  rm -rf \"$WORKDIR\"\n" \o
                  "fi"
              ELSE  \* clean = copy_tmp
                  "set +e\n" \o
                  "if [[ -d \"$WORKDIR\" ]]; then\n" \o
                  "  echo \"[INFO] cleaning up $WORKDIR\"\n" \o
                  "  cp * \"$RESULTDIR\"\n" \o
                  "  rm -rf \"$WORKDIR\"\n" \o
                  "fi",
          cd_block |->
              "cd \"$WORKDIR\"",
          copyback_block |->
              "echo \"[INFO] copying results to $RESULTDIR\"\n" \o
              "rsync -a \"$WORKDIR\"/ \"$RESULTDIR\"/"]
    ELSE IF workdir = "scratch"
    THEN [
          workdir_block |->
              "# Use shared scratch\n" \o
              "WORKDIR=\"/scratch/${SLURM_JOB_ID}\"\n" \o
              "mkdir -p \"$WORKDIR\"\n",
          staging_block |->
              "shopt -s nullglob\n" \o
              "TO_COPY=( *.inp *.gbw *.xyz *.hess *.engrad *.molden.input *.molden *.wfn *.num *.mkl *.trj *.swag *.tmp )\n" \o
              "TO_COPY+=( \"$INPUT\" )\n" \o
              "\n" \o
              "echo \"[INFO] staging inputs to $WORKDIR\"\n" \o
              "for f in \"${TO_COPY[@]}\"; do\n" \o
              "  [[ -e \"$f\" ]] && rsync -a \"$f\" \"$WORKDIR/\"\n" \o
              "done\n",
          cleanup_block |->
              IF clean = "standart" THEN
                  "set +e\n" \o
                  "if [[ -d \"$WORKDIR\" ]]; then\n" \o
                  "  echo \"[INFO] cleaning up $WORKDIR\"\n" \o
                  "  rm -rf \"$WORKDIR\"\n" \o
                  "fi"
              ELSE  \* clean = copy_tmp
                  "set +e\n" \o
                  "if [[ -d \"$WORKDIR\" ]]; then\n" \o
                  "  echo \"[INFO] cleaning up $WORKDIR\"\n" \o
                  "  cp * \"$RESULTDIR\"\n" \o
                  "  rm -rf \"$WORKDIR\"\n" \o
                  "fi",
          cd_block |->
              "cd \"$WORKDIR\"",
          copyback_block |->
              "echo \"[INFO] copying results to $RESULTDIR\"\n" \o
              "rsync -a \"$WORKDIR\"/ \"$RESULTDIR\"/"]
    ELSE IF workdir = "pwd"
    THEN [
          workdir_block |->
              "# Use current directory (no staging)\n" \o
              "WORKDIR=\"$PWD\"\n",
          staging_block |->
              "echo \"[INFO] no staging; running in $PWD\"",
          cleanup_block |->
              "echo \"[INFO] no cleanup for workdir=pwd\"",
          cd_block |->
              "cd \"$WORKDIR\"",
          copyback_block |->
              "echo \"[INFO] no copy-back; results already in $PWD\""]
    ELSE [workdir_block |-> "", staging_block |-> "", cleanup_block |-> "", cd_block |-> "",
          copyback_block |-> ""]  \* argparse admits no other --workdir

\* slurm_content of create_slurm, res being what extract_resources returned
SlurmContent(e, res, inp_path, args) ==
    LET nprocs == res[1]
        mem    == res[1] * res[2]
        blocks == SlurmBlocks(args.workdir, args.clean)
    IN  TEMPLATE(IF args.job_name /= NONE /\ args.job_name /= <<"">>
                 THEN args.job_name[1] ELSE e.user \o "_ORCA_calc",
                 Str(nprocs), args.time, args.partition,
                 IF args.nodelist /= NONE /\ args.nodelist /= <<"">>
                 THEN "#SBATCH --nodelist=" \o args.nodelist[1] \o "\n" ELSE "",
                 IF args.exclusive THEN "#SBATCH --exclusive\n" ELSE "",
                 Str(mem) \o "MB", PathName(inp_path),
                 blocks.workdir_block, blocks.cleanup_block, blocks.staging_block,
                 blocks.cd_block, blocks.copyback_block)

(* orca_submit.py: the inputs it is run on                                 *)

\* the cores and the memory per core the inputs are generated for: none is
\* a default of extract_resources
PalValues == {1, 8, 128}

MaxCoreValues == {500, 16000}

\* calls of the three writers of orca_mkinput.py, whose text is the input
GeneratedBy ==
    {[c EXCEPT !.pal = p, !.maxcore_mb = m] :
        c \in {s \in SingleCalls :
                  /\ s.charge = 0 /\ s.nstates = 10 /\ s.moinp = NONE
                  /\ s.extra \in {NONE, Some(<<"TightSCF">>)}
                  /\ s.extra_blocks \in {NONE, Some(<<GeomBlock>>)}},
        p \in PalValues, m \in MaxCoreValues}
    \cup
    {[c EXCEPT !.pal = p, !.maxcore_mb = m] :
        c \in {s \in CompoundCalls :
                  /\ Len(s.steps) <= 2
                  /\ s.global_extra_blocks = NONE
                  /\ \A k \in DOMAIN s.step_extra_blocks : s.step_extra_blocks[k] = <<>>},
        p \in PalValues, m \in MaxCoreValues}
    \cup
    {[c EXCEPT !.pal = p, !.maxcore_mb = m] :
        c \in {s \in NebCalls :
                  /\ s.outdir = NONE /\ s.basis = NONE /\ s.smd = NONE /\ s.extra = NONE
                  /\ s.ts_xyz = NONE /\ s.springconst = 10 /\ s.nimages = 10},
        p \in PalValues, m \in MaxCoreValues}

\* the document a writer call puts into its file
GeneratedText(c) ==
    IF c.fn = "write_single_step" THEN SingleText(JOB_MAP_Literal, c)
    ELSE IF c.fn = "write_compound" THEN CompoundText(JOB_MAP_Literal, c)
    ELSE NebText(JOB_MAP_Literal, c)

\* inputs written by hand: no entry at all; memory only; cores only, in
\* the two styles; a %pal block without a number
HandWritten ==
    {"! B3LYP def2-SVP Opt\n\n* xyzfile 0 1 mol.xyz\n",
     "! B3LYP def2-SVP\n%maxcore 2000\n* xyzfile 0 1 mol.xyz\n",
     "! B3LYP def2-SVP PAL4\n* xyzfile 0 1 mol.xyz\n",
     "! B3LYP def2-SVP\n%PAL NPROCS 6 END\n* xyzfile 0 1 mol.xyz\n",
     "! B3LYP def2-SVP\n%pal\n  nprocs\nend\n%maxcore\n* xyzfile 0 1 mol.xyz\n",
     ""}

SubmitArgsDefault ==
    [job_name |-> NONE, nodelist |-> NONE, exclusive |-> TRUE, partition |-> "normal",
     time |-> "48:00:00", workdir |-> "lscratch", clean |-> "copy_tmp", submit |-> FALSE]

SubmitArgs ==
    {SubmitArgsDefault,
     [SubmitArgsDefault EXCEPT !.workdir = "pwd", !.submit = TRUE, !.exclusive = FALSE],
     [SubmitArgsDefault EXCEPT !.workdir = "scratch", !.clean = "standart",
                               !.job_name = Some("neb42"), !.nodelist = Some("c1028,c1029")]}

\* the calls: made_by is the writer call whose document lies in inp_path,
\* NONE for a file written by hand and for a file that is missing
SubmitCalls ==
    [fn : {"extract_resources"}, inp_path : {"mol.inp"},
     made_by : {Some(c) : c \in GeneratedBy} \cup {NONE}, args : {SubmitArgsDefault}]
    \cup
    [fn : {"create_slurm"}, inp_path : {"mol.inp", "runs/mol.inp"},
     made_by : {Some(c) : c \in GeneratedBy} \cup {NONE}, args : SubmitArgs]

(* The state machine of orca_submit.py: one call of one function           *)

SubmitInit ==
    /\ JOB_MAP = JOB_MAP_Literal
    /\ call \in SubmitCalls
    /\ IF call.made_by /= NONE
       THEN fs = [p \in {call.inp_path} |-> GeneratedText(call.made_by[1])]
       ELSE \/ \E text \in HandWritten : fs = [p \in {call.inp_path} |-> text]
            \/ fs = <<>>
    /\ env = [user |-> "alice", ran |-> <<>>]
    /\ pc = "ready"
    /\ ret = NONE
    /\ exc = NONE
    /\ stdout = <<>>
    /\ stderr = <<>>
    /\ todo = <<>>
    /\ handle = NONE
    /\ frame = NoLoop

\* extract_resources(inp_file); open() raises when the file is missing
Call_extract_resources ==
    /\ pc = "ready"
    /\ call.fn = "extract_resources"
    /\ IF Exists(fs, call.inp_path)
       THEN /\ ret' = Some(extract_resources(FileText(fs, call.inp_path)))
            /\ pc' = "returned"
            /\ exc' = exc
       ELSE /\ exc' = Some("FileNotFoundError: [Errno 2] No such file or directory: '"
                           \o call.inp_path \o "'")
            /\ pc' = "raised"
            /\ ret' = ret
    /\ UNCHANGED <<env, JOB_MAP, call, fs, stdout, stderr, todo, handle, frame>>

\* create_slurm(inp_path, args): the script is written next to the input
\* and, under --submit, handed to sbatch
Call_create_slurm ==
    /\ pc = "ready"
    /\ call.fn = "create_slurm"
    /\ IF ~Exists(fs, call.inp_path)
       THEN /\ stdout' = Append(stdout, "[ERROR] File not found: " \o call.inp_path)
            /\ UNCHANGED <<fs, env>>
       ELSE LET slurm_path == SlurmPath(call.inp_path)
                res == extract_resources(FileText(fs, call.inp_path))
            IN  /\ res \in Int \X Int
                /\ fs' = WriteFile(fs, slurm_path,
                            SlurmContent(env, res, call.inp_path, call.args))
                /\ stdout' = stdout \o <<"[INFO] Created " \o slurm_path>>
                                \o (IF call.args.submit
                                    THEN <<"[INFO] Submitted " \o slurm_path>> ELSE <<>>)
                /\ env' = IF call.args.submit
                          THEN [env EXCEPT !.ran = Append(@, <<"sbatch", slurm_path>>)]
                          ELSE env
    /\ ret' = Some(NONE)
    /\ pc' = "returned"
    /\ UNCHANGED <<JOB_MAP, call, exc, stderr, todo, handle, frame>>

SubmitNext ==
    \/ Call_extract_resources
    \/ Call_create_slurm

SubmitSpec == SubmitInit /\ [][SubmitNext]_vars

(* C24: history rows give way to live rows                                 *)

MergeReturned == call.fn = "merge_rows_live_and_history" /\ pc = "returned"

\* the job id of a row, for a row that has one
RowHasId(r) == Len(r) >= 1 /\ Len(r[1]) >= 1

\* the id up to its first dot: the longest dot-free start of the id
BaseIdOf(jid) ==
    LET k == CHOOSE n \in 0..Len(jid) :
                 /\ \A i \in 1..n : Char(jid, i) /= "."
                 /\ (n < Len(jid) => Char(jid, n + 1) = ".")
    IN  SubSeq(jid, 1, k)

\* the three conditions the statement puts on a history row
HistoryRowStays(live_rows, r) ==
    /\ RowHasId(r)
    /\ \A i \in 1..Len(r[1]) : Char(r[1], i) /= "."
    /\ \A j \in 1..Len(live_rows) :
          RowHasId(live_rows[j]) => BaseIdOf(live_rows[j][1]) /= BaseIdOf(r[1])

\* C24: merge_rows_live_and_history returns every live row in its order,
\* then the history rows in their order, a history row being kept exactly
\* when its job id is non-empty, holds no '.', and its base job id is the
\* base job id of no live row.
C24_LiveThenFreshHistory ==
    MergeReturned =>
        LET live == call.live_rows
            hist == call.hist_rows
            out  == ret[1]
            kept == {i \in 1..Len(hist) : HistoryRowStays(live, hist[i])}
        IN  /\ Len(out) = Len(live) + Cardinality(kept)
            /\ SubSeq(out, 1, Len(live)) = live
            /\ \A i \in kept :
                  out[Len(live) + Cardinality({k \in kept : k <= i})] = hist[i]

\* a live step row 7.batch hides the history row 7 and lets 10 through
LiveStepHidesHistory ==
    /\ MergeReturned
    /\ call.live_rows = <<Row("7.batch", "RUNNING")>>
    /\ call.hist_rows = <<Row("7", "COMPLETED"), Row("10", "TIMEOUT")>>
    /\ ret = Some(<<Row("7.batch", "RUNNING"), Row("10", "TIMEOUT")>>)

(* C25: the indices a selection names                                      *)

SelectionReturned == call.fn = "_parse_selection" /\ pc = "returned"

\* the selection with its blanks taken out, cut at the commas
RECURSIVE Squeezed(_)
Squeezed(s) ==
    IF s = "" THEN ""
    ELSE IF Head(s) = " " THEN Squeezed(Tail(s))
    ELSE Head(s) \o Squeezed(Tail(s))

TypedTokens(s) == LET toks == SplitOn(Squeezed(s), ",") IN {toks[i] : i \in 1..Len(toks)}

DigitChars == {"0", "1", "2", "3", "4", "5", "6", "7", "8", "9"}

\* a decimal numeral with or without a sign
SignedNumeral(x) ==
    /\ Len(x) >= 1
    /\ LET d == IF Char(x, 1) \in {"+", "-"} THEN 2 ELSE 1
       IN  d <= Len(x) /\ \A i \in d..Len(x) : Char(x, i) \in DigitChars

RECURSIVE Pow10(_)
Pow10(k) == IF k = 0 THEN 1 ELSE 10 * Pow10(k - 1)

RECURSIVE PlaceSum(_, _)
PlaceSum(x, i) ==
    IF i > Len(x) THEN 0
    ELSE IF Char(x, i) \in DigitChars
    THEN (CHOOSE d \in 0..9 : StrNat(d) = Char(x, i)) * Pow10(Len(x) - i) + PlaceSum(x, i + 1)
    ELSE PlaceSum(x, i + 1)

\* the integer a signed numeral writes
NumeralValue(x) == IF Char(x, 1) = "-" THEN 0 - PlaceSum(x, 1) ELSE PlaceSum(x, 1)

Between(a, b, i) == (a <= i /\ i <= b) \/ (b <= i /\ i <= a)

\* the token is a-b cut at its dash number k, and the range covers i
RangeAtDashCovers(tok, k, i) ==
    LET a == SubSeq(tok, 1, k - 1)
        b == SubSeq(tok, k + 1, Len(tok))
    IN  /\ Char(tok, k) = "-"
        /\ SignedNumeral(a)
        /\ SignedNumeral(b)
        /\ Between(NumeralValue(a), NumeralValue(b), i)

\* the token is the integer i, or a range a-b of two integers covering i
TokenNames(tok, i) ==
    \/ SignedNumeral(tok) /\ NumeralValue(tok) = i
    \/ \E k \in 1..Len(tok) : RangeAtDashCovers(tok, k, i)

\* the same, the dash between a and b being the first dash of the token
TokenNamesFirstDash(tok, i) ==
    \/ SignedNumeral(tok) /\ NumeralValue(tok) = i
    \/ \E k \in 1..Len(tok) :
          /\ \A j \in 1..(k - 1) : Char(tok, j) /= "-"
          /\ RangeAtDashCovers(tok, k, i)

StrictlyIncreasingWithin(out, n) ==
    /\ \A k \in 1..Len(out) : 1 <= out[k] /\ out[k] <= n
    /\ \A k \in 1..(Len(out) - 1) : out[k] < out[k + 1]

\* C25 as stated: _parse_selection(s, n) returns without raising a strictly
\* increasing list within 1..n that holds i exactly when some token of s,
\* blanks removed, is the integer i or a range a-b of two integers, in
\* either order, that covers i.
C25_EveryRangeHonoured ==
    SelectionReturned =>
        /\ exc = NONE
        /\ StrictlyIncreasingWithin(ret[1], call.n)
        /\ \A i \in 1..call.n :
              (\E k \in 1..Len(ret[1]) : ret[1][k] = i)
                  <=> \E tok \in TypedTokens(call.s) : TokenNames(tok, i)

\* C25 amended: the same, a range a-b being cut at the first dash of the
\* token, so that b may carry a minus sign and a may not.
C25_RangeCutAtFirstDash ==
    SelectionReturned =>
        /\ exc = NONE
        /\ StrictlyIncreasingWithin(ret[1], call.n)
        /\ \A i \in 1..call.n :
              (\E k \in 1..Len(ret[1]) : ret[1][k] = i)
                  <=> \E tok \in TypedTokens(call.s) : TokenNamesFirstDash(tok, i)

\* a range typed backwards and with blanks selects the jobs 9 to 12
BackwardRangeSelected ==
    /\ SelectionReturned
    /\ call.s = "12 - 9"
    /\ call.n = 12
    /\ ret = Some(<<9, 10, 11, 12>>)

(* C22: what the cancel menu cancels                                       *)

CancelRun == call.fn = "main" /\ call.args.cancel_menu

\* the lines squeue printed for the user who runs the script, cut at |
OwnListing ==
    LET lines == SplitOn(env.squeue[env.user], "\n")
    IN  [i \in 1..Len(lines) |-> SplitOn(lines[i], "|")]

NotYetFinal == {"RUNNING", "PENDING", "CONFIGURING"}

\* the jobs the menu numbers 1, 2, ...: the listed jobs that are not over
OfferedJobs == SelectSeq(OwnListing, LAMBDA r : Len(r) >= 3 /\ r[3] \in NotYetFinal)

Blanks == {"", " ", "  ", "\t", "\n"}

\* the word yes as a person types it, in any case, blanks around it
YesAsTyped ==
    {pre \o y \o e \o z \o post :
        pre \in Blanks, y \in {"y", "Y"}, e \in {"e", "E"}, z \in {"s", "S"}, post \in Blanks}

SaidYes(a) == a /= NONE /\ a[1] \in YesAsTyped

\* the first answer names the menu index idx
IndexSelected(a, idx) ==
    /\ a /= NONE
    /\ \E tok \in TypedTokens(a[1]) : TokenNamesFirstDash(tok, idx)

NothingSelected(a) == \A idx \in 1..Len(OfferedJobs) : ~IndexSelected(a, idx)

\* the confirmation summary names the job, and was printed before the
\* second question
SummaryShownFor(jobid) ==
    \E p \in 1..Len(stdout) : \E q \in (p + 1)..Len(stdout) : \E t \in (q + 1)..Len(stdout) :
        /\ Contains(stdout[p], "You are about to CANCEL the following jobs:")
        /\ Contains(stdout[q], "  - " \o jobid \o "  (")
        /\ Contains(stdout[t], "Type 'yes' to confirm cancellation: ")

WatchRun == call.fn = "main" /\ call.args.watch /= NONE /\ call.args.watch[1] >= 1

\* stdin is a terminal the script can switch to cbreak
OnTerminal == env.stdin_tty /\ env.has_termios

\* N seconds on the clock of the environment
Period == TicksPerSecond * call.args.watch[1]

\* the renders so far: each prints the hint line once, the hint at the end
\* of the line or before the four characters that end the color
IsHintLine(l) ==
    \E k \in {Len(WatchHint), Len(WatchHint) + 4} :
        Len(l) >= k /\ SubSeq(l, Len(l) - k + 1, Len(l) - k + Len(WatchHint)) = WatchHint

HintLines(out) == {p \in 1..Len(out) : IsHintLine(out[p])}

RenderCount(out) == Cardinality(HintLines(out))

LastRenderColored(out) ==
    \E p \in HintLines(out) : (\A r \in HintLines(out) : r <= p) /\ Char(out[p], 1) = ESC

\* this step reads the key ch
KeyRead(ch) == env'.keys = Append(env.keys, ch)

ColorToggled(keys) == \E k \in 1..Len(keys) : keys[k] \in {"c", "C"}

Watching(p) == p \in {"render", "wait"}

\* what a key read during the wait does
KeyRule(ch) ==
    IF ch \in {"q", "Q"}
    THEN /\ pc' = "returned"
         /\ ret' = Some(0)
         /\ RenderCount(stdout') = RenderCount(stdout)
    ELSE IF ch \in {"c", "C"}
    THEN /\ pc' = "render"
         /\ frame'.use_color = ~frame.use_color
         /\ env'.clock = env.clock
         /\ stdout' = stdout
    ELSE /\ pc' = "wait"
         /\ frame' = frame
         /\ env'.clock = env.clock
         /\ stdout' = stdout

\* the table is drawn once per step, in the color mode of the moment
RenderRule ==
    RenderCount(stdout') /= RenderCount(stdout) =>
        /\ pc = "render"
        /\ RenderCount(stdout') = RenderCount(stdout) + 1
        /\ LastRenderColored(stdout') <=> frame.use_color

\* while the color is not toggled render number k + 1 comes k periods
\* after the first, neither sooner nor later
PeriodRule ==
    ~ColorToggled(env'.keys) =>
        /\ pc' = "wait" =>
              /\ (RenderCount(stdout') - 1) * Period <= env'.clock
              /\ env'.clock <= RenderCount(stdout') * Period
        /\ pc' = "render" => env'.clock = RenderCount(stdout') * Period

\* the run goes on until the user quits or a render fails
QuitRule ==
    (pc /= pc' /\ ~Watching(pc')) =>
        \/ KeyRead("q") \/ KeyRead("Q") \/ KeyRead("^C")
        \/ pc' = "raised"

WatchRules ==
    /\ \A ch \in Keys : KeyRead(ch) => (pc = "wait" /\ OnTerminal /\ KeyRule(ch))
    /\ RenderRule
    /\ PeriodRule
    /\ QuitRule
    /\ (pc = "returned" => stdout' = stdout)

Left(p) == p \in {"returned", "raised"}

\* C27: in --watch mode a terminal that was switched to cbreak has its
\* saved attributes, those it had before the switch, back on every way out
\* of the loop (quit key, Ctrl-C, an exception while rendering) when main
\* returns or the exception leaves it; when stdin is not an interactive
\* terminal the attributes are never changed.
C27_TerminalRestored ==
    [][(call.fn = "main" /\ call.args.watch /= NONE) =>
          /\ ~OnTerminal => env'.term = env.term
          /\ (pc = "ready" /\ env'.term /= env.term) =>
                /\ env'.term = "cbreak"
                /\ frame'.old_term = Some(env.term)
                /\ Watching(pc')
          /\ Watching(pc) =>
                /\ frame'.old_term = frame.old_term
                /\ Watching(pc') => env'.term = env.term
                /\ (Left(pc') /\ frame.old_term /= NONE) => env'.term = frame.old_term[1]
          /\ Left(pc) => env'.term = env.term]_vars

\* a terminal found raw and switched to cbreak is raw again when the second
\* render fails and its exception leaves main
RestoredAfterFailedRender ==
    /\ call.fn = "main"
    /\ call.args.watch = Some(1)
    /\ OnTerminal
    /\ pc = "raised"
    /\ exc /= NONE
    /\ RenderCount(stdout) = 1
    /\ frame.old_term = Some("raw")
    /\ env.term = "raw"

(* C26: what orca_mkinput.py asked for is what orca_submit.py requests     *)

\* the batch script written next to the input, line by line
ScriptLines == Lines(FileText(fs, SlurmPath(call.inp_path)))

\* the lines have the directive once, with this value
Requests(lines, directive, value) ==
    LET at == {i \in 1..Len(lines) : StartsWith(lines[i], directive)}
    IN  Cardinality(at) = 1 /\ \A i \in at : lines[i] = directive \o value

\* the call found cores and memory per core to be pal and mb
ResourcesAre(pal, mb) ==
    IF call.fn = "extract_resources"
    THEN ret = Some(<<pal, mb>>)
    ELSE /\ Exists(fs, SlurmPath(call.inp_path))
         /\ LET lines == ScriptLines
            IN  /\ Requests(lines, "#SBATCH --ntasks-per-node=", Str(pal))
                /\ Requests(lines, "#SBATCH --mem=", Str(pal * mb) \o "MB")

\* the input names neither cores nor memory
NoResourceEntry(text) == ~Contains(Lower(text), "pal") /\ ~Contains(Lower(text), "maxcore")

\* C26: on a document written by orca_mkinput.py for pal cores and
\* maxcore_mb MB per core, in either parallelism style and any of the three
\* shapes, extract_resources returns (pal, maxcore_mb) and the batch script
\* requests pal tasks and pal * maxcore_mb MB; on an input without a
\* parallelism or memory entry the values are 32 and 4000.
C26_RoundTrip ==
    (pc = "returned" /\ call.fn \in {"extract_resources", "create_slurm"}) =>
        /\ call.made_by /= NONE =>
              ResourcesAre(call.made_by[1].pal, call.made_by[1].maxcore_mb)
        /\ (call.made_by = NONE /\ Exists(fs, call.inp_path)
              /\ NoResourceEntry(FileText(fs, call.inp_path))) => ResourcesAre(32, 4000)

\* a compound document with ! PAL128 and %MaxCore 16000 gives a script
\* that asks for 128 tasks and 2048000 MB
CompoundBangRoundTrip ==
    /\ call.fn = "create_slurm"
    /\ pc = "returned"
    /\ call.made_by /= NONE
    /\ call.made_by[1].fn = "write_compound"
    /\ call.made_by[1].pal_style = "bang"
    /\ call.made_by[1].pal = 128
    /\ call.made_by[1].maxcore_mb = 16000
    /\ Requests(ScriptLines, "#SBATCH --ntasks-per-node=", "128")
    /\ Requests(ScriptLines, "#SBATCH --mem=", "2048000MB")

====
